---- MODULE Spec2Model ----
(***************************************************************************)
(* Verification development for fin_evo_agent: the verification gateway,   *)
(* the evolution gatekeeper and its checkpoints, the tool registry, the    *)
(* synthesizer and the batch evolution manager.                            *)
(*                                                                         *)
(* Threads run the handlers step by step; a step is one block of the       *)
(* handler's code between two accesses to shared files or database rows    *)
(* whose interleaving with other threads matters.                          *)
(***************************************************************************)
EXTENDS Integers, Sequences, FiniteSets, Bags, TLC

(***************************************************************************)
(* Bounds of the model.                                                    *)
(***************************************************************************)
MaxThreads == 2
MaxCalls == 2
MaxTime == 1
MaxBatchTasks == 2
MaxRefineAttempts == 2
MaxRounds == 1
MaxLibrary == 10
MaxLookupLibrary == 2
MaxLines == 3
MaxWaits == 2
MaxEvalTasks == 3

Threads == 1..MaxThreads

(***************************************************************************)
(* Values.                                                                 *)
(***************************************************************************)
NoContract == "none"
NoCode == 0
NoTool == 0
NoCp == <<>>

Categories == {"calculation", "fetch"}

\* VerificationStage values (verifier.py uses NONE < AST_SECURITY < SELF_TEST
\* < CONTRACT_VALID < INTEGRATION).
ST_NONE == 0
AST_SECURITY == 1
SELF_TEST == 2
CONTRACT_VALID == 3
INTEGRATION == 4

(***************************************************************************)
(* Code payloads the LLM or a caller can hand in.  A payload is known by   *)
(* its content (its index = its content hash) and by what the verifier and *)
(* the executor observe of it: the name of its first top-level function,   *)
(* the modules it imports, whether its __main__ self test exits 0, whether *)
(* its output satisfies the contract, whether it runs on real data.        *)
(***************************************************************************)
CodeTable ==
  << [name |-> "calc_rsi",    imports |-> {"pandas"},   selfTest |-> TRUE,  contractOk |-> TRUE,  integOk |-> TRUE],
     [name |-> "calc_rsi",    imports |-> {"pandas"},   selfTest |-> TRUE,  contractOk |-> FALSE, integOk |-> TRUE],
     [name |-> "compute_rsi", imports |-> {"pandas"},   selfTest |-> TRUE,  contractOk |-> TRUE,  integOk |-> TRUE],
     [name |-> "unsafe_func", imports |-> {"os"},       selfTest |-> TRUE,  contractOk |-> TRUE,  integOk |-> TRUE],
     [name |-> "get_price",   imports |-> {"yfinance"}, selfTest |-> TRUE,  contractOk |-> TRUE,  integOk |-> FALSE],
     [name |-> "calc_rsi",    imports |-> {"pandas"},   selfTest |-> FALSE, contractOk |-> TRUE,  integOk |-> TRUE],
     [name |-> "calc_rsi",    imports |-> {"pandas"},   selfTest |-> TRUE,  contractOk |-> TRUE,  integOk |-> TRUE] >>

Codes == 1..Len(CodeTable)

\* re.search(r'^def\s+(\w+)\s*\(', code, re.MULTILINE)
extract_function_name(code) == CodeTable[code].name

(***************************************************************************)
(* Constraints store.                                                      *)
(***************************************************************************)
always_banned_modules == {"os"}

get_allowed_modules(category) ==
  IF category = "fetch" THEN {"pandas", "yfinance"} ELSE {"pandas"}

get_banned_modules(category) ==
  always_banned_modules \cup (IF category = "fetch" THEN {} ELSE {"yfinance"})

\* ToolExecutor.ALLOWED_MODULES: union over all categories
ALLOWED_MODULES == get_allowed_modules("calculation") \cup get_allowed_modules("fetch")

(***************************************************************************)
(* Executor.                                                               *)
(***************************************************************************)
\* static_check_with_rules: every import is outside the banned set (always
\* banned merged in) and inside the allowed set.
static_check_with_rules(code, allowed, banned) ==
  \A m \in CodeTable[code].imports :
      m \notin (always_banned_modules \cup banned) /\ m \in allowed

static_check(code) == static_check_with_rules(code, ALLOWED_MODULES, {})

\* The error message of a failed static_check_with_rules: per import, the
\* banned set is looked at before the allowed set.
static_check_error(code, allowed, banned) ==
  IF \E m \in CodeTable[code].imports : m \in (always_banned_modules \cup banned)
    THEN "Banned import"
    ELSE "Unallowed import"

\* A text (std_err, a stage message) is the sequence of its fragments, and a
\* string occurs in a text when it is one of them.
Contains(text, str) == \E i \in 1..Len(text) : text[i] = str

\* executor.py lines 315-318: the trace of a child process that outlived
\* timeout_sec: stderr "Timeout (30s)".
TimeoutTrace ==
  [exit_code |-> 124, std_err |-> <<"Timeout (", "30", "s)">>, seclines |-> 0, spawned |-> TRUE]

\* An executor that runs the payload whatever the analyzer says
execute_unchecked(code, ok) ==
  IF ok THEN [exit_code |-> 0, std_err |-> <<>>, seclines |-> 0, spawned |-> TRUE]
        ELSE [exit_code |-> 1, std_err |-> <<"Traceback", "AssertionError">>, seclines |-> 0,
              spawned |-> TRUE]

\* execute(code, func_name, args): [exit_code, std_err, seclines, spawned]
\* where seclines is the number of lines appended to
\* security_violations.log and spawned tells whether subprocess.run was
\* reached.  A rejected payload gets std_err "SecurityException: <error>", a
\* failed run the child's traceback.
execute(code, ok) ==
  IF ~static_check(code)
    THEN [exit_code |-> 1,
          std_err |-> <<"SecurityException", ": ", static_check_error(code, ALLOWED_MODULES, {})>>,
          seclines |-> 1, spawned |-> FALSE]
    ELSE IF ok THEN [exit_code |-> 0, std_err |-> <<>>, seclines |-> 0, spawned |-> TRUE]
               ELSE [exit_code |-> 1, std_err |-> <<"Traceback", "AssertionError">>, seclines |-> 0,
                     spawned |-> TRUE]

(***************************************************************************)
(* The static analyzer on source text.  (CodeTable knows a payload by the  *)
(* modules it imports; here a source is the sequence of its lines.)        *)
(***************************************************************************)
\* always_banned_calls and always_banned_attributes of the constraints file
always_banned_calls == {"eval"}
always_banned_attributes == {"__dict__"}

\* The lines a source is made of, over the names "os" (a banned module),
\* "pandas" (an allowed module), "eval" (a banned call) and "__dict__" (a
\* banned attribute):
\*  - a one-line statement: an import, a from-import, or an expression
\*    statement: a call f(), a method call x.f(), an attribute access x.f or
\*    a literal "f", bare or as the argument of print(...).  nodes: the
\*    line's AST nodes from the outside in, each with the type the analyzer
\*    tells apart (ast.Import, ast.ImportFrom, ast.Call on a Name, ast.Call
\*    on an Attribute, ast.Attribute, a str ast.Constant) and its ids: the
\*    module, the called name, the attribute, the names the literal holds;
\*  - a line that starts with '#': "# <id>" or "# coding <id>";
\*  - a line that is just three double quotes: it opens a string literal,
\*    or closes the one that is open.
Lines ==
  {[kind |-> "stmt", nodes |-> <<[type |-> type, ids |-> {id}]>>] :
      type \in {"Import", "ImportFrom", "CallName", "CallMethod", "Attribute", "Constant"},
      id \in {"os", "pandas", "eval", "__dict__"}}
  \cup {[kind |-> "stmt",
         nodes |-> <<[type |-> "CallName", ids |-> {"print"}], [type |-> type, ids |-> {id}]>>] :
          type \in {"CallName", "CallMethod", "Attribute", "Constant"},
          id \in {"os", "pandas", "eval", "__dict__"}}
  \cup {[kind |-> "comment", coding |-> c, id |-> id] : c \in BOOLEAN, id \in {"pandas", "eval"}}
  \cup {[kind |-> "quotes"]}

Sources(n) == UNION {[1..k -> Lines] : k \in 1..n}

\* The names in the text of a line
LineIds(line) ==
  IF line.kind = "stmt" THEN UNION {line.nodes[i].ids : i \in 1..Len(line.nodes)}
  ELSE IF line.kind = "comment" THEN {line.id}
  ELSE {}

\* executor.py lines 68-76: _normalize_encoding drops, among the first two
\* lines, every line that starts with '#' and contains 'coding'.
RECURSIVE NormalizeFrom(_, _)
NormalizeFrom(lines, i) ==
  IF i > Len(lines) THEN <<>>
  ELSE IF i <= 2 /\ lines[i].kind = "comment" /\ lines[i].coding
    THEN NormalizeFrom(lines, i + 1)
    ELSE <<lines[i]>> \o NormalizeFrom(lines, i + 1)

_normalize_encoding(lines) == NormalizeFrom(lines, 1)

\* ast.parse and ast.walk: the nodes of the tree, breadth first (the
\* statements' own nodes, then their children).  Comment lines leave no
\* node; the lines between two quote lines are the value of one str
\* Constant; a source that ends inside a string literal is a SyntaxError.
RECURSIVE Scan(_, _, _, _)
Scan(lines, inString, literal, acc) ==
  IF lines = <<>>
    THEN IF inString THEN [ok |-> FALSE, nodes |-> <<>>]
         ELSE [ok |-> TRUE, nodes |-> acc.outer \o acc.inner]
  ELSE LET line == Head(lines)
           rest == Tail(lines)
       IN IF line.kind = "quotes"
            THEN IF inString
                   THEN Scan(rest, FALSE, {},
                             [acc EXCEPT !.outer = Append(@, [type |-> "Constant", ids |-> literal])])
                   ELSE Scan(rest, TRUE, {}, acc)
          ELSE IF inString THEN Scan(rest, TRUE, literal \cup LineIds(line), acc)
          ELSE IF line.kind = "comment" THEN Scan(rest, FALSE, {}, acc)
          ELSE Scan(rest, FALSE, {},
                    [outer |-> Append(acc.outer, line.nodes[1]),
                     inner |-> IF Len(line.nodes) = 2 THEN Append(acc.inner, line.nodes[2])
                               ELSE acc.inner])

ast_walk(lines) == Scan(lines, FALSE, {}, [outer |-> <<>>, inner |-> <<>>])

\* executor.py lines 153-190: what the loop body finds on one node ("none":
\* nothing).  A method call is an ast.Call whose func is an ast.Attribute,
\* which the walk visits as a node of its own.
NodeError(node, allowed, banned_modules, banned_calls, banned_attributes) ==
  IF node.type \in {"Import", "ImportFrom"}
    THEN IF node.ids \cap banned_modules # {} THEN "Banned import"
         ELSE IF node.ids \ allowed # {} THEN "Unallowed import"
         ELSE "none"
  ELSE IF node.type = "CallName"
    THEN IF node.ids \cap banned_calls # {} THEN "Banned call" ELSE "none"
  ELSE IF node.type = "CallMethod"
    THEN IF node.ids \cap banned_calls # {} THEN "Banned method call"
         ELSE IF node.ids \cap banned_attributes # {} THEN "Banned attribute access"
         ELSE "none"
  ELSE IF node.type = "Attribute"
    THEN IF node.ids \cap banned_attributes # {} THEN "Banned attribute access" ELSE "none"
  ELSE IF node.ids \cap (banned_calls \cup banned_attributes) # {}
    THEN "Suspicious string literal"
    ELSE "none"

\* executor.py lines 93-192: static_check(code) with the default rules:
\* normalise, parse, walk, return at the first node with an error.
static_check_source(lines) ==
  LET tree == ast_walk(_normalize_encoding(lines))
      errors == [i \in 1..Len(tree.nodes) |->
                   NodeError(tree.nodes[i], ALLOWED_MODULES, always_banned_modules,
                             always_banned_calls, always_banned_attributes)]
      hits == {i \in 1..Len(tree.nodes) : errors[i] # "none"}
  IN IF ~tree.ok THEN [is_safe |-> FALSE, error |-> "Syntax Error"]
     ELSE IF hits = {} THEN [is_safe |-> TRUE, error |-> "none"]
     ELSE [is_safe |-> FALSE, error |-> errors[CHOOSE i \in hits : \A j \in hits : i <= j]]

\* What the child process of a payload can end with: exit code 0, a
\* traceback, or the timeout.
ChildTraces(code) == {execute(code, ok) : ok \in BOOLEAN} \cup {TimeoutTrace}

(***************************************************************************)
(* Multi-stage verifier.                                                   *)
(***************************************************************************)
StageResult(stage, result) == [stage |-> stage, result |-> result]

_verify_ast_security(code, category) ==
  IF static_check_with_rules(code, get_allowed_modules(category), get_banned_modules(category))
    THEN StageResult(AST_SECURITY, "pass")
    ELSE StageResult(AST_SECURITY, "fail")

\* report.add_stage: final_stage is the highest stage that passed
FinalStage(stages) ==
  LET passedStages == {stages[i].stage : i \in {j \in 1..Len(stages) : stages[j].result = "pass"}}
  IN IF passedStages = {} THEN ST_NONE
     ELSE CHOOSE s \in passedStages : \A u \in passedStages : u <= s

\* spawns: the number of subprocesses the stages started (a count kept for
\* the properties, not a field of the source's report)
Report(stages, seclines, spawns) ==
  [passed   |-> \A i \in 1..Len(stages) : stages[i].result # "fail",
   stages   |-> stages,
   final_stage |-> FinalStage(stages),
   seclines |-> seclines,
   spawns   |-> spawns]

\* A verifier that runs and records every stage whatever the earlier ones
\* returned
verify_all_stages_unabridged(code, category, contract, real_data) ==
  LET e2 == execute(code, CodeTable[code].selfTest)
      e3 == execute(code, CodeTable[code].contractOk)
      e4 == execute(code, CodeTable[code].integOk)
  IN Report(<<_verify_ast_security(code, category),
              StageResult(SELF_TEST, IF e2.exit_code = 0 THEN "pass" ELSE "fail"),
              StageResult(CONTRACT_VALID, IF contract = NoContract THEN "skip"
                                          ELSE IF e3.exit_code = 0 THEN "pass" ELSE "fail"),
              StageResult(INTEGRATION, IF ~(category = "fetch" /\ real_data) THEN "skip"
                                       ELSE IF e4.exit_code = 0 THEN "pass" ELSE "fail")>>,
            e2.seclines, 1)

verify_all_stages(code, category, contract, real_data) ==
  LET s1 == _verify_ast_security(code, category)
      e2 == execute(code, CodeTable[code].selfTest)
      s2 == StageResult(SELF_TEST, IF e2.exit_code = 0 THEN "pass" ELSE "fail")
      e3 == execute(code, CodeTable[code].contractOk)
      s3 == IF contract # NoContract
              THEN StageResult(CONTRACT_VALID, IF e3.exit_code = 0 THEN "pass" ELSE "fail")
              ELSE StageResult(CONTRACT_VALID, "skip")
      n3 == IF contract # NoContract THEN e3.seclines ELSE 0
      e4 == execute(code, CodeTable[code].integOk)
      s4 == IF category = "fetch" /\ real_data
              THEN StageResult(INTEGRATION, IF e4.exit_code = 0 THEN "pass" ELSE "fail")
              ELSE StageResult(INTEGRATION, "skip")
      n4 == IF category = "fetch" /\ real_data THEN e4.seclines ELSE 0
      p2 == IF e2.spawned THEN 1 ELSE 0
      p3 == IF contract # NoContract /\ e3.spawned THEN 1 ELSE 0
      p4 == IF category = "fetch" /\ real_data /\ e4.spawned THEN 1 ELSE 0
  IN IF s1.result = "fail" THEN Report(<<s1>>, 0, 0)
     ELSE IF s2.result = "fail" THEN Report(<<s1, s2>>, e2.seclines, p2)
     ELSE IF s3.result = "fail" THEN Report(<<s1, s2, s3>>, e2.seclines + n3, p2 + p3)
     ELSE Report(<<s1, s2, s3, s4>>, e2.seclines + n3 + n4, p2 + p3 + p4)

\* A caller that takes every report for a passed one
PassedAlways(report) == TRUE

\* passed, report = verify_all_stages(...): the first component
Passed(report) == report.passed

NoReport == [passed |-> FALSE, stages |-> <<>>, final_stage |-> ST_NONE, seclines |-> 0, spawns |-> 0]

\* verifier.py lines 203, 215: the message of the stage that failed:
\* "AST security check failed: <error>", "Self-test failed: <stderr>", or the
\* contract validator's.
StageMessage(code, category, report) ==
  LET last == report.stages[Len(report.stages)]
  IN IF last.stage = AST_SECURITY
       THEN <<"AST security check failed", ": ",
              static_check_error(code, get_allowed_modules(category), get_banned_modules(category))>>
     ELSE IF last.stage = SELF_TEST
       THEN <<"Self-test failed", ": ">> \o execute(code, CodeTable[code].selfTest).std_err
     ELSE <<"Contract validation failed">>

\* VerificationStage.name
StageName(stage) ==
  IF stage = AST_SECURITY THEN "AST_SECURITY"
  ELSE IF stage = SELF_TEST THEN "SELF_TEST"
  ELSE IF stage = CONTRACT_VALID THEN "CONTRACT_VALID"
  ELSE IF stage = INTEGRATION THEN "INTEGRATION"
  ELSE "NONE"

\* Synthesizer._create_trace_from_report: std_err joins "<STAGE>: <message>"
\* of the failed stages (the verifier stops at the first failure).
TraceStdErr(code, category, report) ==
  IF report.passed THEN <<>>
  ELSE <<StageName(report.stages[Len(report.stages)].stage), ": ">>
         \o StageMessage(code, category, report)

(***************************************************************************)
(* Contract catalog.                                                       *)
(***************************************************************************)
ContractIds == {"calc_rsi"}
ContractOpt == ContractIds \cup {NoContract}

\* get_contract(task_id): looks the argument up in TASK_CONTRACT_MAPPING,
\* whose keys are task ids ("calc_001"), not contract ids.
get_contract(key) == IF key = "calc_001" THEN "calc_rsi" ELSE NoContract

\* get_contract_by_id(contract_id): CONTRACTS.get(contract_id)
get_contract_by_id(contract_id) == IF contract_id \in ContractIds THEN contract_id ELSE NoContract

(***************************************************************************)
(* Semantic versions.  The registry keeps them as strings "M.m.p"; strings *)
(* are sequences of character codes so that max() compares them the way    *)
(* Python compares str.                                                    *)
(***************************************************************************)
RECURSIVE Digits(_)
Digits(n) == IF n < 10 THEN <<48 + n>> ELSE Digits(n \div 10) \o <<48 + (n % 10)>>

VersionStr(v) == Digits(v[1]) \o <<46>> \o Digits(v[2]) \o <<46>> \o Digits(v[3])

RECURSIVE StrLess(_, _)
StrLess(a, b) ==
  IF a = <<>> THEN b # <<>>
  ELSE IF b = <<>> THEN FALSE
  ELSE IF Head(a) # Head(b) THEN Head(a) < Head(b)
  ELSE StrLess(Tail(a), Tail(b))

InitialVersion == <<0, 1, 0>>

(***************************************************************************)
(* State.                                                                  *)
(***************************************************************************)
VARIABLES
  tools,      \* tool_artifacts table: sequence of rows, row i has id i
  writes,     \* history: who inserted each row (component, submission id)
  cps,        \* checkpoint directory: checkpoint id -> status
  attempts,   \* gateway_attempts.jsonl: per submission, the lines it wrote, in order
  gatelog,    \* evolution_gates.log: its lines, as a bag
  seclog,     \* number of lines of security_violations.log
  merges,     \* batch_merge_records table
  now,        \* wall clock in seconds (datetime.now() to the second)
  calls,      \* number of top-level calls started so far
  nsub,       \* number of gateway submissions started so far
  files,      \* artifacts directory: the payload files written so far
  th,         \* per thread: position in the handler and its locals; slot 0: the latest return
  batch       \* the evolve_batch call of the main thread

vars == <<tools, writes, files, cps, attempts, gatelog, seclog, merges, now, calls, nsub, th, batch>>

CpActions == {"submit_tool", "create_tool", "modify_tool", "execute_fetch", "persist_tool"}
CpIds == (0..MaxTime) \X CpActions

IdleFrame ==
  [pc |-> "idle", job |-> "none", ret |-> "top", sub |-> 0,
   code |-> NoCode, category |-> "calculation", contract |-> NoContract,
   cidArg |-> "none", taskArg |-> FALSE, real_data |-> FALSE, force |-> FALSE,
   cpid |-> NoCp, cpEnd |-> "none", report |-> NoReport, exc |-> "none",
   regName |-> "none", regVersion |-> InitialVersion, regBy |-> "none", regRet |-> "none",
   tool |-> NoTool, tcid |-> NoContract, tstage |-> ST_NONE,
   result |-> "none", ev |-> <<>>,
   task |-> 0, attempt |-> 0, max_attempts |-> 0, stderr |-> <<>>, refContract |-> NoContract,
   exit_code |-> 0, spawned |-> FALSE, source |-> <<>>, error |-> "none", contractArg |-> NoContract, answer |-> "none", waited |-> 0,
   runner |-> [total |-> 0, interrupted |-> FALSE, results |-> <<>>, late |-> <<>>,
               file |-> [saved |-> FALSE, interrupted |-> FALSE, tasks |-> <<>>]],
   llm_calls |-> 0, sleeps |-> 0, delays |-> <<>>, error_reports |-> 0, submits |-> 0,
   gateAction |-> "none", mode |-> "dev", funcRaises |-> FALSE, dedup |-> "none"]

\* The evolve_batch call in progress: its task list, the index of the next
\* task to dispatch, the tasks waiting in the pool, the number of futures not
\* yet collected, report.results, pending_results and the report's counters;
\* overdue: the workers whose task has been running for longer than the
\* per-task timeout.
NoBatch ==
  [phase |-> "idle", tasks |-> <<>>, next |-> 1, queue |-> <<>>, outstanding |-> 0,
   results |-> <<>>, pending |-> <<>>, dedupIdx |-> 1,
   synthesis_success |-> 0, registration_success |-> 0,
   reused_count |-> 0, dedup_merged |-> 0,
   round |-> 0, num_rounds |-> 0, reports |-> <<>>, overdue |-> {}]

Init ==
  /\ tools = <<>>
  /\ writes = <<>>
  /\ cps = [c \in CpIds |-> "absent"]
  /\ attempts = <<>>
  /\ gatelog = EmptyBag
  /\ seclog = 0
  /\ merges = <<>>
  /\ now = 0
  /\ calls = 0
  /\ nsub = 0
  /\ files = {}
  /\ th = [t \in 0..MaxThreads |-> IdleFrame]
  /\ batch = NoBatch


(***************************************************************************)
(* Helpers on the state.                                                   *)
(***************************************************************************)
ToolIds == 1..Len(tools)

\* A thread is free outside a call.
Busy(t) == th[t].pc # "idle"

\* A caller starts a new top-level call on a free thread; free threads are
\* interchangeable, so the lowest one takes the call.
CanStart(t) ==
  /\ ~Busy(t)
  /\ \A u \in Threads : u < t => Busy(u)
  /\ calls < MaxCalls
  /\ batch.phase = "idle"

\* A lookup or a deduplication adds no row: any caller can make one whenever
\* a thread is free.
CanLook(t) ==
  /\ ~Busy(t)
  /\ \A u \in Threads : u < t => Busy(u)
  /\ batch.phase = "idle"

\* The frames after thread t moved to frame: a thread whose top-level call
\* is over is free again, and slot 0 keeps what the latest such call returned.
SetFrame(t, frame) ==
  IF frame.pc = "done" THEN [th EXCEPT ![t] = IdleFrame, ![0] = frame]
  ELSE [th EXCEPT ![t] = frame]

\* What the latest top-level call returned
returned == th[0]

\* Return from a (possibly nested) call: back to the caller's continuation.
Finish(f, result) ==
  [f EXCEPT !.result = result, !.pc = IF f.ret = "top" THEN "done" ELSE f.ret]

\* checkpoint_id = cp_<time to the second>_<action[:20]>
CheckpointId(time, action) == <<time, action>>

\* A create_checkpoint that returns the id and writes no file
create_checkpoint_unwritten(c, time, action) == c

\* CheckpointManager.create_checkpoint: the file of the id is opened with
\* mode 'w' and written with status pending.
create_checkpoint(c, time, action) == [c EXCEPT ![CheckpointId(time, action)] = "pending"]

\* datetime.now() to the second: the clock shows the second it showed at the
\* last reading or a later one.  Seconds only name checkpoints, so a later
\* second differs from the current one only once a checkpoint of the current
\* second exists, and one later second stands for all of them.
ClockReadsAt(time, c) ==
  {time} \cup {n \in {time + 1} : n <= MaxTime /\ \E a \in CpActions : c[<<time, a>>] # "absent"}

ClockReads == ClockReadsAt(now, cps)

\* CheckpointManager.mark_complete
mark_complete(c, id) == IF c[id] # "absent" THEN [c EXCEPT ![id] = "completed"] ELSE c

\* A mark_failed that leaves the file as it is
mark_failed_skipped(c, id) == c

\* CheckpointManager.mark_failed
mark_failed(c, id) == IF c[id] # "absent" THEN [c EXCEPT ![id] = "failed"] ELSE c

\* VerificationGateway._log_attempt: one more line of submission sub
_log_attempt(log, action, success, sub) ==
  LET line == [action |-> action, success |-> success, sub |-> sub]
  IN IF sub > Len(log) THEN Append(log, <<line>>)
     ELSE [log EXCEPT ![sub] = Append(@, line)]

\* EvolutionGatekeeper._log_action: one more line
_log_action(log, action, result) == log (+) SetToBag({[action |-> action, result |-> result]})

\* VerificationGateway._tool_exists -> ToolRegistry.get_by_name
_tool_exists(name) == \E i \in ToolIds : tools[i].name = name

(***************************************************************************)
(* ToolRegistry.register, first half                                       *)
(***************************************************************************)
\* max(same_name, key=lambda t: t.semantic_version): the first row whose
\* version string no other row's string exceeds.
LatestVersionIn(rows, name) ==
  LET same == {i \in 1..Len(rows) : rows[i].name = name}
      best == CHOOSE i \in same : \A j \in same : ~StrLess(VersionStr(rows[i].semantic_version),
                                                            VersionStr(rows[j].semantic_version))
  IN rows[best].semantic_version

LatestVersion(name) == LatestVersionIn(tools, name)

\* registry.py lines 116-127, get_by_name: None when no row has the name,
\* otherwise max(tools, key=lambda t: t.semantic_version), whatever the
\* status of the rows.
get_by_name(name) ==
  LET same == {i \in ToolIds : tools[i].name = name}
      latest == {i \in same : \A j \in same : ~StrLess(VersionStr(tools[i].semantic_version),
                                                         VersionStr(tools[j].semantic_version))}
  IN IF same = {} THEN NoTool ELSE CHOOSE i \in latest : \A j \in latest : i <= j

\* registry.py lines 81-87: the latest version of the name with its patch
\* number incremented, or 0.1.0 for a new name.
NextVersionIn(rows, name) ==
  LET latest == LatestVersionIn(rows, name)
  IN IF \E i \in 1..Len(rows) : rows[i].name = name
       THEN <<latest[1], latest[2], latest[3] + 1>>
       ELSE InitialVersion

\* A lookup of the payload that also requires the name to match
FindExistingSameName(rows, name, code) ==
  {i \in 1..Len(rows) : rows[i].code = code /\ rows[i].name = name}

\* registry.py lines 69-71: select(ToolArtifact).where(content_hash ==
\* content_hash); the name register was called with plays no part.  Equal
\* hashes are equal payloads.
FindExisting(rows, name, code) ==
  {i \in 1..Len(rows) : rows[i].code = code}

\* registry.py lines 65-87, register(name, code, ...): look the hash up and
\* return the row that has it; otherwise compute the next version of the name
\* and go on to the write.  by is the caller, ret where the caller continues.
RegReadNamed(f, name, by, ret) ==
  LET byHash == FindExisting(tools, name, f.code)
      existing == IF byHash = {} THEN NoTool ELSE CHOOSE i \in byHash : \A j \in byHash : i <= j
      version == NextVersionIn(tools, name)
  IN IF existing # NoTool
       THEN [f EXCEPT !.pc = ret, !.regName = name, !.regBy = by, !.regRet = ret, !.tool = existing,
                      !.tcid = tools[existing].contract_id,
                      !.tstage = tools[existing].verification_stage,
                      !.ev = Append(f.ev, "register")]
       ELSE [f EXCEPT !.pc = "reg_write", !.regName = name, !.regBy = by, !.regRet = ret,
                      !.regVersion = version]

\* synthesizer.py line 235, gateway.py line 229: register(name=func_name,
\* code=code, ...) with the name of the function the payload defines.
RegRead(f, by, ret) == RegReadNamed(f, extract_function_name(f.code), by, ret)

(***************************************************************************)
(* VerificationGateway.submit                                              *)
(***************************************************************************)
\* The argument tuples callers hand to submit: a payload for every outcome of
\* the verifier, the contract given explicitly, by id (a task id the catalog
\* maps, or a contract id it does not map) or by task text, with and without
\* force.
SubmitArg(code, category, contract, cidArg, taskArg, real_data, force) ==
  [code |-> code, category |-> category, contract |-> contract, cidArg |-> cidArg,
   taskArg |-> taskArg, real_data |-> real_data, force |-> force]

SubmitArgs ==
  { SubmitArg(1, "calculation", "calc_rsi", "none", FALSE, FALSE, TRUE),
    SubmitArg(1, "calculation", NoContract, "calc_rsi", FALSE, FALSE, FALSE),
    SubmitArg(2, "calculation", NoContract, "calc_001", FALSE, FALSE, TRUE),
    SubmitArg(2, "calculation", NoContract, "none", FALSE, FALSE, FALSE),
    SubmitArg(3, "calculation", NoContract, "none", TRUE, FALSE, FALSE),
    SubmitArg(4, "calculation", NoContract, "none", FALSE, FALSE, TRUE),
    SubmitArg(5, "fetch", NoContract, "none", FALSE, TRUE, FALSE) }

\* An except branch that swallows the exception: the checkpoint is marked
\* failed, nothing is logged and the caller gets a rejection.
SubmitErrorSwallowed(t, f, who, c, log) ==
  /\ cps' = mark_failed(c, f.cpid)
  /\ attempts' = log
  /\ th' = SetFrame(t, Finish([f EXCEPT !.exc = who, !.tool = NoTool,
                                              !.cpEnd = mark_failed(c, f.cpid)[f.cpid],
                                              !.ev = f.ev \o <<"raise", "cp_failed">>],
                                    "rejected"))

\* gateway.py lines 273-283: except Exception: mark the checkpoint failed, log
\* ERROR, re-raise.  who is the callee that raised; c and log are the
\* checkpoint directory and the attempts log as the submission left them.
SubmitError(t, f, who, c, log) ==
  /\ cps' = mark_failed(c, f.cpid)
  /\ attempts' = _log_attempt(log, "ERROR", FALSE, f.sub)
  /\ th' = SetFrame(t, Finish([f EXCEPT !.exc = who, !.tool = NoTool,
                                              !.cpEnd = mark_failed(c, f.cpid)[f.cpid],
                                              !.ev = f.ev \o <<"raise", "cp_failed", "log_ERROR">>],
                                    "raised"))

\* ACTION_GATES / EvolutionGatekeeper.classify
classify(action) ==
  IF action \in {"read_cached_data", "execute_calculation", "list_tools", "get_tool_info"} THEN "AUTO"
  ELSE IF action \in {"persist_tool", "delete_tool", "modify_verification_rules", "modify_constraints"} THEN "APPROVAL"
  ELSE "CHECKPOINT"

\* gateway.py lines 199-203: the action the gateway asks the gatekeeper about
GateAction(code) ==
  IF ~_tool_exists(extract_function_name(code)) THEN "create_tool" ELSE "modify_tool"

\* gateway.py lines 174-234: run the verifier; on failure close the checkpoint
\* as failed, log VERIFICATION_FAILED and return (False, None, report); on
\* success route through the gatekeeper unless forced (create_tool and
\* modify_tool are CHECKPOINT tier: its own checkpoint around a function that
\* does nothing) and enter registry.register.  The verifier and the
\* gatekeeper can raise.  c, log and time are the checkpoint directory, the
\* attempts log and the clock as the first part of submit left them.
SubmitVerify(t, f, c, log, time) ==
  LET report == verify_all_stages(f.code, f.category, f.contract, f.real_data)
      g == [f EXCEPT !.report = report, !.ev = Append(f.ev, "verify_end")]
      action == GateAction(f.code)
      approved == classify(action) = "CHECKPOINT"
  IN \/ /\ SubmitError(t, f, "verifier", c, log)
        /\ now' = time
        /\ UNCHANGED <<gatelog, seclog>>
     \/ /\ ~Passed(report)
        /\ seclog' = seclog + report.seclines
        /\ cps' = mark_failed(c, f.cpid)
        /\ attempts' = _log_attempt(log, "VERIFICATION_FAILED", FALSE, f.sub)
        /\ th' = SetFrame(t,
                    Finish([g EXCEPT !.cpEnd = mark_failed(c, f.cpid)[f.cpid],
                                     !.ev = g.ev \o <<"cp_failed", "log_VERIFICATION_FAILED">>],
                           "rejected"))
        /\ now' = time
        /\ UNCHANGED gatelog
     \/ /\ Passed(report)
        /\ f.force
        /\ seclog' = seclog + report.seclines
        /\ th' = SetFrame(t, RegRead(g, "gateway", "sub_update"))
        /\ cps' = c
        /\ attempts' = log
        /\ now' = time
        /\ UNCHANGED gatelog
     \/ /\ Passed(report)
        /\ ~f.force
        /\ seclog' = seclog + report.seclines
        /\ SubmitError(t, g, "gatekeeper", c, log)
        /\ now' = time
        /\ UNCHANGED gatelog
     \/ /\ Passed(report)
        /\ ~f.force
        /\ seclog' = seclog + report.seclines
        /\ IF approved
             THEN /\ \E time2 \in ClockReadsAt(time, c) :
                       /\ now' = time2
                       /\ cps' = mark_complete(create_checkpoint(c, time2, action),
                                               CheckpointId(time2, action))
                  /\ gatelog' = _log_action(_log_action(gatelog, action, "checkpoint_created"),
                                             action, "completed")
                  /\ th' = SetFrame(t,
                              RegRead([g EXCEPT !.ev = Append(g.ev, "gate")], "gateway", "sub_update"))
                  /\ attempts' = log
             ELSE /\ cps' = mark_failed(c, f.cpid)
                  /\ gatelog' = _log_action(gatelog, action, "denied")
                  /\ attempts' = _log_attempt(log, "GATEKEEPER_DENIED", FALSE, f.sub)
                  /\ th' = SetFrame(t,
                              Finish([g EXCEPT !.cpEnd = mark_failed(c, f.cpid)[f.cpid],
                                               !.ev = g.ev \o <<"gate_denied", "cp_failed",
                                                                "log_GATEKEEPER_DENIED">>],
                                     "rejected"))
                  /\ now' = time

\* gateway.py lines 144-172, then the rest of submit up to the call of
\* registry.register: resolve the contract, log SUBMIT, open the checkpoint,
\* verify.  infer_contract_from_query is called with the task only, while it
\* takes (query, category): that call raises TypeError before anything is
\* logged.  Verification reads and writes nothing other threads touch, so
\* it is one step with the opening of the checkpoint.
SubmitEntry(t, f) ==
  LET byId == f.contract = NoContract /\ f.cidArg # "none"
      byTask == f.contract = NoContract /\ f.cidArg = "none" /\ f.taskArg
      contract == IF byId THEN get_contract(f.cidArg) ELSE f.contract
  IN IF byTask
       THEN /\ th' = SetFrame(t, Finish([f EXCEPT !.exc = "TypeError", !.ev = <<>>,
                                                      !.contractArg = f.contract,
                                                      !.cpid = NoCp, !.cpEnd = "none",
                                                      !.sub = 0, !.report = NoReport,
                                                      !.tool = NoTool], "raised"))
            /\ UNCHANGED <<attempts, cps, nsub, now, gatelog, seclog>>
       ELSE /\ nsub' = nsub + 1
            /\ \E time \in ClockReads :
                 SubmitVerify(t, [f EXCEPT !.sub = nsub + 1, !.contractArg = f.contract,
                                           !.contract = contract, !.exc = "none",
                                           !.cpid = CheckpointId(time, "submit_tool"),
                                           !.cpEnd = "none",
                                           !.report = NoReport, !.tool = NoTool,
                                           !.result = "none",
                                           !.ev = <<"log_SUBMIT", "cp_open">>],
                              create_checkpoint(cps, time, "submit_tool"),
                              _log_attempt(attempts, "SUBMIT", FALSE, nsub + 1),
                              time)

\* A caller outside the evolution modules (CLI, tests) calls submit.
CallSubmit(t) ==
  /\ CanStart(t)
  /\ \E a \in SubmitArgs :
       SubmitEntry(t, [IdleFrame EXCEPT !.job = "submit", !.ret = "top", !.code = a.code,
                                        !.category = a.category, !.contract = a.contract,
                                        !.cidArg = a.cidArg, !.taskArg = a.taskArg,
                                        !.real_data = a.real_data, !.force = a.force])
  /\ calls' = calls + 1
  /\ UNCHANGED <<tools, writes, files, merges, batch>>

(***************************************************************************)
(* ToolRegistry.register, second half                                      *)
(***************************************************************************)
\* What the caller of register does when register raises: the gateway runs
\* its except branch, a batch worker turns the exception into a failed
\* result, any other caller lets it propagate.
RegisterRaised(t, f) ==
  IF f.regBy = "gateway" THEN SubmitError(t, f, "register", cps, attempts)
  ELSE /\ th' = SetFrame(t,
                   IF f.job = "worker"
                     THEN [IdleFrame EXCEPT !.pc = "worker_done", !.job = "worker", !.task = f.task,
                                           !.category = f.category, !.contract = f.contract,
                                           !.exc = "register", !.result = "raised"]
                     ELSE Finish([f EXCEPT !.exc = "register", !.tool = NoTool, !.ret = "top"], "raised"))
       /\ UNCHANGED <<cps, attempts>>

\* An open that creates nothing
WriteFileSkipped(fs, file) == fs

\* registry.py lines 90-95: open(file_path, 'w') and f.write(code), the path
\* being {name}_v{version}_{hash8}.py: the file of that name, version and
\* payload exists afterwards.
WriteFile(fs, file) == fs \cup {file}

\* registry.py lines 89-114: write the payload file, insert the row (status
\* PROVISIONAL), commit.  content_hash is a unique column: the insert of a
\* hash that another thread inserted meanwhile fails.  The write of the file
\* can fail too.
RegWrite(t) ==
  LET f == th[t]
      name == f.regName
      file == [name |-> name, version |-> f.regVersion, code |-> f.code]
      row == [name |-> name, code |-> f.code, semantic_version |-> f.regVersion,
              status |-> "provisional", category |-> "none",
              contract_id |-> NoContract, verification_stage |-> ST_NONE]
  IN /\ f.pc = "reg_write"
     /\ \/ /\ RegisterRaised(t, f)
           /\ UNCHANGED <<tools, writes, files>>
        \/ /\ \E i \in ToolIds : tools[i].code = f.code
           /\ files' = WriteFile(files, file)
           /\ RegisterRaised(t, f)
           /\ UNCHANGED <<tools, writes>>
        \/ /\ ~\E i \in ToolIds : tools[i].code = f.code
           /\ files' = WriteFile(files, file)
           /\ tools' = Append(tools, row)
           /\ writes' = Append(writes, [id |-> Len(tools) + 1, by |-> f.regBy, sub |-> f.sub])
           /\ th' = SetFrame(t, [f EXCEPT !.pc = f.regRet, !.tool = Len(tools) + 1,
                                                !.tcid = NoContract, !.tstage = ST_NONE,
                                                !.ev = Append(f.ev, "register")])
           /\ UNCHANGED <<cps, attempts>>
     /\ UNCHANGED <<gatelog, seclog, merges, now, calls, nsub, batch>>

\* The names callers register payloads under
RegisterNames == {"calc_rsi", "compute_rsi"}

\* The payloads callers register: one that defines calc_rsi, one that
\* defines compute_rsi, and the payload of the oldest artifact of the
\* registry.
RegisterCodes == {1, 3} \cup {tools[i].code : i \in ToolIds \cap {1}}

\* registry.register(name, code) called directly (CLI, tests, registry.py
\* line 193 and 208), with any of the names and any of the payloads.  A call
\* that finds the hash returns at once (registry.py lines 73-74), any other
\* goes on to the write and returns the new row.
CallRegister(t) ==
  /\ CanStart(t)
  /\ \E name \in RegisterNames, code \in RegisterCodes :
       th' = SetFrame(t, RegReadNamed([IdleFrame EXCEPT !.job = "register", !.code = code],
                                      name, "caller", "done"))
  /\ calls' = calls + 1
  /\ UNCHANGED <<tools, writes, files, cps, attempts, gatelog, seclog, merges, now, nsub, batch>>

\* registry.update_schema(tool.id, category=...) followed by
\* _update_tool_verification_fields(tool.id, capabilities, contract_id, stage)
UpdateFields(id, category, contract, stage) ==
  [tools EXCEPT ![id] = [@ EXCEPT !.category = category, !.contract_id = contract,
                                   !.verification_stage = stage]]

\* gateway.py lines 236-271: the metadata update after registration (it can
\* raise), then mark the checkpoint complete, log REGISTERED and return
\* (True, tool, report).
SubmitUpdate(t) ==
  LET f == th[t]
  IN /\ f.pc = "sub_update"
     /\ \/ /\ SubmitError(t, f, "update", cps, attempts)
           /\ UNCHANGED tools
        \/ /\ tools' = UpdateFields(f.tool, f.category, f.contract, f.report.final_stage)
           /\ cps' = mark_complete(cps, f.cpid)
           /\ attempts' = _log_attempt(attempts, "REGISTERED", TRUE, f.sub)
           /\ th' = SetFrame(t,
                       Finish([f EXCEPT !.cpEnd = mark_complete(cps, f.cpid)[f.cpid],
                                        !.ev = f.ev \o <<"update", "cp_completed", "log_REGISTERED">>],
                              "ok"))
     /\ UNCHANGED <<writes, files, gatelog, seclog, merges, now, calls, nsub, batch>>

(***************************************************************************)
(* EvolutionGatekeeper.execute called directly                             *)
(***************************************************************************)
GateArg(action, gmode, approved, funcRaises) ==
  [action |-> action, mode |-> gmode, approved |-> approved, funcRaises |-> funcRaises]

\* One action per tier: an AUTO action, a CHECKPOINT action whose function
\* returns or raises, an APPROVAL action in dev mode (its function raises) and
\* in prod mode (denied, or approved and its function returns).
GateArgs ==
  { GateArg("list_tools", "dev", TRUE, FALSE),
    GateArg("execute_fetch", "dev", TRUE, FALSE),
    GateArg("execute_fetch", "prod", TRUE, TRUE),
    GateArg("persist_tool", "dev", FALSE, TRUE),
    GateArg("persist_tool", "prod", FALSE, FALSE),
    GateArg("persist_tool", "prod", TRUE, FALSE) }

\* gates.py lines 212-223, 236-262: classify; AUTO runs the function at once;
\* CHECKPOINT and an approved APPROVAL open a checkpoint; a denied APPROVAL
\* returns (False, None).
CallGate(t) ==
  /\ CanStart(t)
  /\ \E a \in GateArgs :
       LET tier == classify(a.action)
           f == [IdleFrame EXCEPT !.job = "gate", !.gateAction = a.action, !.mode = a.mode,
                                  !.funcRaises = a.funcRaises]
       IN IF tier = "AUTO"
            THEN /\ gatelog' = _log_action(gatelog, a.action, "executed")
                 /\ th' = SetFrame(t, Finish(f, IF a.funcRaises THEN "raised" ELSE "ok"))
                 /\ UNCHANGED <<cps, now>>
          ELSE IF tier = "APPROVAL" /\ a.mode = "prod" /\ ~a.approved
            THEN /\ gatelog' = _log_action(gatelog, a.action, "denied")
                 /\ th' = SetFrame(t, Finish(f, "rejected"))
                 /\ UNCHANGED <<cps, now>>
          ELSE /\ \E time \in ClockReads :
                    /\ now' = time
                    /\ cps' = create_checkpoint(cps, time, a.action)
                    /\ th' = SetFrame(t, [f EXCEPT !.pc = "gate_run",
                                                         !.cpid = CheckpointId(time, a.action)])
               /\ gatelog' = _log_action(gatelog, a.action,
                                 IF tier = "CHECKPOINT" THEN "checkpoint_created"
                                 ELSE IF a.mode = "dev" THEN "auto_approved_dev_mode" ELSE "approved")
  /\ calls' = calls + 1
  /\ UNCHANGED <<tools, writes, files, attempts, seclog, merges, nsub, batch>>

\* gates.py lines 225-233, 242-248, 264-271: run the function, then mark the
\* checkpoint complete, or failed when the function raised (and re-raise).
GateRun(t) ==
  LET f == th[t]
      tier == classify(f.gateAction)
  IN /\ f.pc = "gate_run"
     /\ IF f.funcRaises
          THEN /\ cps' = mark_failed(cps, f.cpid)
               /\ gatelog' = IF tier = "CHECKPOINT" THEN _log_action(gatelog, f.gateAction, "failed")
                             ELSE IF f.mode = "prod" THEN _log_action(gatelog, f.gateAction, "failed_after_approval")
                             ELSE gatelog
               /\ th' = SetFrame(t, Finish([f EXCEPT !.cpEnd = mark_failed(cps, f.cpid)[f.cpid]],
                                            "raised"))
          ELSE /\ cps' = mark_complete(cps, f.cpid)
               /\ gatelog' = IF tier = "CHECKPOINT" THEN _log_action(gatelog, f.gateAction, "completed")
                             ELSE gatelog
               /\ th' = SetFrame(t, Finish([f EXCEPT !.cpEnd = mark_complete(cps, f.cpid)[f.cpid]],
                                            "ok"))
     /\ UNCHANGED <<tools, writes, files, attempts, seclog, merges, now, calls, nsub, batch>>

\* gates.py lines 212, 251-255: an APPROVAL-tier action in prod mode: execute
\* calls the approver (approval_callback, or input() on the console) and
\* waits for its answer.
RequestApproval(t) ==
  /\ CanStart(t)
  /\ \E action \in {a \in CpActions : classify(a) = "APPROVAL"}, funcRaises \in BOOLEAN :
       th' = SetFrame(t, [IdleFrame EXCEPT !.pc = "gate_wait", !.job = "gate", !.ret = "top",
                                           !.gateAction = action, !.mode = "prod",
                                           !.funcRaises = funcRaises])
  /\ calls' = calls + 1
  /\ UNCHANGED <<tools, writes, files, cps, attempts, gatelog, seclog, merges, now, nsub, batch>>

\* approval_timeout_sec more seconds pass and the approver has not answered.
\* The gatekeeper keeps approval_timeout_sec (gates.py line 139) and names it
\* in the prompt (line 190), but neither input() nor the callback is given a
\* timeout: the call keeps waiting.
ApprovalTimeoutPasses(t) ==
  /\ th[t].pc = "gate_wait"
  /\ th[t].waited < MaxWaits
  /\ th' = SetFrame(t, [th[t] EXCEPT !.waited = @ + 1])
  /\ UNCHANGED <<tools, writes, files, cps, attempts, gatelog, seclog, merges, now, calls, nsub, batch>>

\* gates.py lines 182-194, 251-262: the approver answers (on the console: 'y'
\* or 'yes' approves, anything else and EOF or an interrupt deny).  Denied:
\* log "denied", return (False, None).  Approved: open the checkpoint, log
\* "approved", go on to the function.
ApproverAnswers(t) ==
  LET f == th[t]
  IN /\ f.pc = "gate_wait"
     /\ \E approved \in BOOLEAN :
          IF approved
            THEN /\ \E time \in ClockReads :
                      /\ now' = time
                      /\ cps' = create_checkpoint(cps, time, f.gateAction)
                      /\ th' = SetFrame(t, [f EXCEPT !.pc = "gate_run", !.answer = "yes",
                                                           !.cpid = CheckpointId(time, f.gateAction)])
                 /\ gatelog' = _log_action(gatelog, f.gateAction, "approved")
            ELSE /\ gatelog' = _log_action(gatelog, f.gateAction, "denied")
                 /\ th' = SetFrame(t, Finish([f EXCEPT !.answer = "no"], "rejected"))
                 /\ UNCHANGED <<cps, now>>
     /\ UNCHANGED <<tools, writes, files, attempts, seclog, merges, calls, nsub, batch>>

\* The process stops (crash, kill) and is started again: the calls in
\* progress are gone, what is on disk stays.  gates.py lines 60-63, 141 and
\* gateway.py line 64: at startup the gatekeeper and the gateway each build
\* a CheckpointManager, whose __init__ makes sure the directory exists and
\* reads no checkpoint file.
Restart ==
  /\ th' = [t \in 0..MaxThreads |->
              IF t = 0 THEN [IdleFrame EXCEPT !.pc = "done", !.job = "startup"] ELSE IdleFrame]
  /\ UNCHANGED <<tools, writes, files, cps, attempts, gatelog, seclog, merges, now, calls, nsub, batch>>

(***************************************************************************)
(* EvalRunner (benchmarks/run_eval.py).  The frame's runner field is the   *)
(* EvalRunner object: the number of tasks read from the task file, the     *)
(* interrupted flag, self.results (task number and state of each result),  *)
(* the results file, and for every task started whether the interrupt had  *)
(* been signalled before it started (late).                                *)
(***************************************************************************)
\* run_eval.py lines 380-461: save_results_json(is_partial) writes the file
\* with "interrupted": is_partial and "tasks": self.results.
save_results_json(runner, is_partial) ==
  [runner EXCEPT !.file = [saved |-> TRUE, interrupted |-> is_partial, tasks |-> runner.results]]

\* A loop that never looks at the flag
LoopBreaksNever(runner) == FALSE

\* run_eval.py line 886: if self.interrupted: break
LoopBreaks(runner) == runner.interrupted

\* run_eval.py lines 865-882: run_all_tasks reads the task file and installs
\* _handle_interrupt as the SIGINT handler.  (Signal handlers run in the
\* main thread: one EvalRunner at a time.)
CallRunAllTasks(t) ==
  /\ CanStart(t)
  /\ \A u \in Threads : th[u].job # "eval"
  /\ \E total \in 1..MaxEvalTasks :
       th' = SetFrame(t, [IdleFrame EXCEPT !.pc = "eval_check", !.job = "eval", !.ret = "top",
                                           !.runner.total = total])
  /\ calls' = calls + 1
  /\ UNCHANGED <<tools, writes, files, cps, attempts, gatelog, seclog, merges, now, nsub, batch>>

\* run_eval.py lines 885-898: the head of the loop.  With a task left and the
\* flag down, go on to run_task; else leave the loop, restore the former
\* handler, save the results (complete or partial) and return.
EvalLoopCheck(t) ==
  LET f == th[t]
      r == f.runner
  IN /\ f.pc = "eval_check"
     /\ IF Len(r.results) < r.total /\ ~LoopBreaks(r)
          THEN th' = SetFrame(t, [f EXCEPT !.pc = "eval_task"])
          ELSE th' = SetFrame(t, Finish([f EXCEPT !.runner = save_results_json(r, r.interrupted)],
                                        "ok"))
     /\ UNCHANGED <<tools, writes, files, cps, attempts, gatelog, seclog, merges, now, calls, nsub, batch>>

\* run_eval.py lines 889-890: result = self.run_task(task, i, len(tasks));
\* self.results.append(result).  run_task catches every Exception and
\* returns a result in one of the three states.
run_task(t) ==
  LET f == th[t]
      r == f.runner
  IN /\ f.pc = "eval_task"
     /\ \E state \in {"pass", "fail", "error"} :
          th' = SetFrame(t, [f EXCEPT !.pc = "eval_check",
                                      !.runner.results = Append(@, [task |-> Len(r.results) + 1,
                                                                    state |-> state]),
                                      !.runner.late = Append(@, r.interrupted)])
     /\ UNCHANGED <<tools, writes, files, cps, attempts, gatelog, seclog, merges, now, calls, nsub, batch>>

\* run_eval.py lines 571-574: SIGINT while the handler is installed (between
\* any two instructions of the loop, or while a task runs): the flag goes up.
_handle_interrupt(t) ==
  /\ th[t].pc \in {"eval_check", "eval_task"}
  /\ th' = SetFrame(t, [th[t] EXCEPT !.runner.interrupted = TRUE])
  /\ UNCHANGED <<tools, writes, files, cps, attempts, gatelog, seclog, merges, now, calls, nsub, batch>>

(***************************************************************************)
(* Tasks.                                                                  *)
(***************************************************************************)
\* A task of the task file: its category, its contract_id tag, and the
\* contract infer_contract_from_query(query, category) returns for its query.
TaskTable ==
  << [task_id |-> "calc_001", category |-> "calculation", contract_id |-> "calc_rsi", inferred |-> "calc_rsi"],
     [task_id |-> "calc_101", category |-> "calculation", contract_id |-> "none", inferred |-> "calc_rsi"],
     [task_id |-> "calc_009", category |-> "calculation", contract_id |-> "none", inferred |-> NoContract] >>

Tasks == 1..Len(TaskTable)

\* What the LLM adapter returns: a payload, or no code at all.
LLMOutputs == Codes \cup {NoCode}

\* What it returns when synthesize_with_refine asks for the code again and
\* when the refiner asks for a patch: the refiner hands the regenerated code
\* back to the LLM only, and the patch goes to the gateway.
RegenOutputs == {NoCode, 6}
PatchOutputs == {NoCode, 2, 4, 7}

(***************************************************************************)
(* Synthesizer.synthesize                                                  *)
(***************************************************************************)
\* synthesizer.py lines 141-240: generate code with the LLM, run the
\* synthesizer's own verifier; on success enter registry.register.
SynthEntry(t, f, code) ==
  LET g == [f EXCEPT !.code = code, !.tool = NoTool, !.exc = "none"]
      report == verify_all_stages(code, g.category, g.contract, FALSE)
  IN IF code = NoCode
       THEN /\ th' = SetFrame(t, Finish([g EXCEPT !.stderr = <<"LLM failed to generate valid code">>], "rejected"))
            /\ UNCHANGED seclog
     ELSE IF ~Passed(report)
       THEN /\ th' = SetFrame(t, Finish([g EXCEPT !.report = report,
                                                      !.stderr = TraceStdErr(code, g.category, report)],
                                               "rejected"))
            /\ seclog' = seclog + report.seclines
     ELSE /\ th' = SetFrame(t, RegRead([g EXCEPT !.report = report, !.stderr = <<>>],
                                             "synthesizer", "synth_update"))
          /\ seclog' = seclog + report.seclines

\* synthesize(task) called directly: category as tagged, contract inferred.
CallSynthesize(t) ==
  /\ CanStart(t)
  /\ \E task \in Tasks, code \in LLMOutputs :
       SynthEntry(t, [IdleFrame EXCEPT !.job = "synth", !.ret = "top", !.task = task,
                                       !.category = TaskTable[task].category,
                                       !.contract = TaskTable[task].inferred], code)
  /\ calls' = calls + 1
  /\ UNCHANGED <<tools, writes, files, cps, attempts, gatelog, merges, now, nsub, batch>>

\* synthesizer.py lines 242-262: update_schema and
\* _update_tool_verification_fields on the row, then return the object
\* register returned (it is not reloaded).
SynthUpdate(t) ==
  LET f == th[t]
  IN /\ f.pc = "synth_update"
     /\ tools' = UpdateFields(f.tool, f.category, f.contract, f.report.final_stage)
     /\ th' = SetFrame(t, Finish(f, "ok"))
     /\ UNCHANGED <<writes, files, cps, attempts, gatelog, seclog, merges, now, calls, nsub, batch>>

(***************************************************************************)
(* Synthesizer.synthesize_with_retry                                       *)
(***************************************************************************)
\* synthesizer.py lines 336-355, first iteration: error_context is empty,
\* call synthesize.
CallRetry(t) ==
  /\ CanStart(t)
  /\ \E task \in Tasks, code \in LLMOutputs, max_attempts \in 1..MaxRefineAttempts :
       SynthEntry(t, [IdleFrame EXCEPT !.job = "retry", !.ret = "retry_ret", !.task = task,
                                       !.max_attempts = max_attempts, !.attempt = 0,
                                       !.category = "calculation",
                                       !.contract = TaskTable[task].inferred], code)
  /\ calls' = calls + 1
  /\ UNCHANGED <<tools, writes, files, cps, attempts, gatelog, merges, now, nsub, batch>>

\* synthesizer.py lines 339-375: synthesize returned: return its tool, or go
\* round the loop: regenerate with the error context, run
\* executor.execute(code, "verify_only"), and on exit code 0 enter
\* registry.register.
RetryAttempt(t) ==
  LET f == th[t]
      g == [f EXCEPT !.ret = "top"]
  IN /\ f.pc = "retry_ret"
     /\ IF f.tool # NoTool
          THEN /\ th' = SetFrame(t, Finish(g, "ok"))
               /\ UNCHANGED seclog
        ELSE IF f.attempt + 1 >= f.max_attempts
          THEN /\ th' = SetFrame(t, Finish(g, "rejected"))
               /\ UNCHANGED seclog
        ELSE \E code \in LLMOutputs :
               LET trace == execute(code, CodeTable[code].selfTest)
               IN IF code = NoCode
                    THEN /\ th' = SetFrame(t, [f EXCEPT !.attempt = f.attempt + 1])
                         /\ UNCHANGED seclog
                  ELSE IF trace.exit_code = 0
                    THEN /\ th' = SetFrame(t, RegRead([g EXCEPT !.code = code, !.attempt = f.attempt + 1],
                                                            "synthesize_with_retry", "retry_done"))
                         /\ seclog' = seclog + trace.seclines
                  ELSE /\ th' = SetFrame(t, [f EXCEPT !.code = code, !.stderr = trace.std_err,
                                                            !.attempt = f.attempt + 1])
                       /\ seclog' = seclog + trace.seclines
     /\ UNCHANGED <<tools, writes, files, cps, attempts, gatelog, merges, now, calls, nsub, batch>>

\* synthesizer.py line 370: return tool, traces
RetryReturn(t) ==
  LET f == th[t]
  IN /\ f.pc = "retry_done"
     /\ th' = SetFrame(t, Finish(f, "ok"))
     /\ UNCHANGED <<tools, writes, files, cps, attempts, gatelog, seclog, merges, now, calls, nsub, batch>>

(***************************************************************************)
(* Synthesizer.synthesize_with_refine and Refiner.refine, as run by a      *)
(* worker of the batch manager                                             *)
(***************************************************************************)
\* BatchEvolutionManager's default max_workers: the size of the thread pool
max_workers == 3

\* Refiner.refine's default max_attempts
DefaultMaxAttempts == 3

\* UNFIXABLE_ERRORS: the stderr texts refine gives up on at once
UNFIXABLE_ERRORS == {"SecurityException", "Unallowed import", "Unallowed call", "Unallowed attribute",
                     "TimeoutError", "ConnectionError", "LLM API Error"}

\* batch_manager.py lines 243-267: what _synthesize_one keeps of the call for
\* its EvolutionResult: the task, the inferred contract, the tool object
\* and whether an exception was caught.
WorkerDone(f, result) ==
  [IdleFrame EXCEPT !.pc = "worker_done", !.job = "worker", !.task = f.task,
                    !.category = f.category, !.contract = f.contract,
                    !.tool = IF result = "ok" THEN f.tool ELSE NoTool,
                    !.tcid = IF result = "ok" THEN f.tcid ELSE NoContract,
                    !.exc = IF result = "raised" THEN f.exc ELSE "none",
                    !.result = result]

\* batch_manager.py lines 227-241 and synthesizer.py line 396: a pool thread
\* takes the next queued task; _synthesize_one infers the contract and calls
\* synthesize_with_refine, which first calls synthesize.
WorkerStart(t) ==
  /\ batch.phase \in {"dispatch", "collect"}
  /\ batch.queue # <<>>
  /\ t <= max_workers
  /\ th[t].pc = "idle"
  /\ \A u \in Threads : u < t => th[u].pc # "idle"
  /\ LET task == Head(batch.queue)
     IN \E code \in LLMOutputs :
          SynthEntry(t, [IdleFrame EXCEPT !.job = "worker", !.ret = "swr_ret", !.task = task,
                                          !.category = TaskTable[task].category,
                                          !.contract = TaskTable[task].inferred], code)
  /\ batch' = [batch EXCEPT !.queue = Tail(batch.queue)]
  /\ UNCHANGED <<tools, writes, files, cps, attempts, gatelog, merges, now, calls, nsub>>

\* synthesizer.py lines 398-420: synthesize returned: return its tool, or ask
\* the LLM for the code again and hand it to Refiner.refine with the failed
\* trace (and neither category nor contract).
SwrAfterSynth(t) ==
  LET f == th[t]
  IN /\ f.pc = "swr_ret"
     /\ IF f.tool # NoTool
          THEN th' = SetFrame(t, WorkerDone(f, "ok"))
          ELSE \E code \in RegenOutputs :
                 th' = SetFrame(t,
                          IF code = NoCode
                            THEN WorkerDone(f, "rejected")
                            ELSE [IdleFrame EXCEPT !.pc = "refine_loop", !.job = "worker",
                                                   !.ret = "swr_ret", !.task = f.task,
                                                   !.category = f.category, !.contract = f.contract,
                                                   !.stderr = f.stderr, !.code = code, !.attempt = 0,
                                                   !.max_attempts = DefaultMaxAttempts])
     /\ UNCHANGED <<tools, writes, files, cps, attempts, gatelog, seclog, merges, now, calls, nsub, batch>>

\* A loop that runs one round more
RangeExhaustedLate(attempt, max_attempts) == attempt > max_attempts

\* refiner.py line 322: for attempt in range(max_attempts) is over
RangeExhausted(attempt, max_attempts) == attempt >= max_attempts

\* A check that takes a stderr for unfixable only when it is a marker itself
IsUnfixableExact(stderr) == \E unfixable \in UNFIXABLE_ERRORS : stderr = <<unfixable>>

\* refiner.py lines 325-328: `unfixable in stderr` for one of the markers
IsUnfixable(stderr) == \E unfixable \in UNFIXABLE_ERRORS : Contains(stderr, unfixable)

\* A backoff that doubles from two seconds on
backoff_delay_doubled(attempt) == 2 ^ attempt

\* refiner.py line 332: delay = 2 ** (attempt - 1), attempt being the loop
\* variable of range(max_attempts), which starts at 0
backoff_delay(attempt) == 2 ^ (attempt - 1)

\* refine returns to its caller: to synthesize_with_refine inside a worker
\* (whose result _synthesize_one keeps), or to an outside caller, which gets
\* (tool, error_reports) or the exception.
RefineExit(f, result) ==
  IF f.job = "worker" THEN WorkerDone(f, result)
  ELSE Finish([f EXCEPT !.ret = "top", !.tool = IF result = "ok" THEN f.tool ELSE NoTool], result)

\* refiner.py lines 322-373: one round of the loop: give up on an unfixable
\* stderr, sleep before every round but the first, ask the LLM for an
\* analysis (one error report) and for a patch, submit the patch to the
\* gateway with the task text and refine's own contract argument.
RefineAttempt(t) ==
  LET f == th[t]
      g == [f EXCEPT !.attempt = f.attempt + 1,
                     !.sleeps = IF f.attempt > 0 THEN f.sleeps + 1 ELSE f.sleeps,
                     !.delays = IF f.attempt > 0 THEN Append(f.delays, backoff_delay(f.attempt))
                                ELSE f.delays,
                     !.llm_calls = f.llm_calls + 2,
                     !.error_reports = f.error_reports + 1]
  IN /\ f.pc = "refine_loop"
     /\ IF RangeExhausted(f.attempt, f.max_attempts) \/ IsUnfixable(f.stderr)
          THEN /\ th' = SetFrame(t, RefineExit(f, "rejected"))
               /\ UNCHANGED <<cps, attempts, nsub, now, gatelog, seclog>>
          ELSE \E patched_code \in PatchOutputs :
                 IF patched_code = NoCode
                   THEN /\ th' = SetFrame(t, g)
                        /\ UNCHANGED <<cps, attempts, nsub, now, gatelog, seclog>>
                   ELSE SubmitEntry(t, [g EXCEPT !.attempt = f.attempt,
                                                !.code = patched_code, !.ret = "refine_ret",
                                                !.cidArg = "none", !.taskArg = TRUE,
                                                !.real_data = FALSE, !.force = FALSE,
                                                !.submits = f.submits + 1,
                                                !.refContract = f.contract,
                                                !.contract = IF f.job = "worker" THEN NoContract
                                                             ELSE f.contract])
     /\ UNCHANGED <<tools, writes, files, merges, calls, batch>>

\* refiner.py lines 375-432 and synthesizer.py lines 422-446: the gateway
\* returned: a registered patch is returned, and gets its metadata from
\* synthesize_with_refine (stage 2); the failed stage's message of a rejected
\* one becomes the next round's stderr; an exception propagates.
RefineAfterSubmit(t) ==
  LET f == th[t]
      g == [f EXCEPT !.contract = f.refContract]
  IN /\ f.pc = "refine_ret"
     /\ IF f.result = "ok"
          THEN /\ tools' = IF f.job = "worker"
                             THEN UpdateFields(f.tool, f.category, g.contract, SELF_TEST)
                             ELSE tools
               /\ th' = SetFrame(t, RefineExit(g, "ok"))
        ELSE IF f.result = "rejected"
          THEN /\ th' = SetFrame(t, [g EXCEPT !.pc = "refine_loop", !.attempt = f.attempt + 1,
                                                    !.stderr = StageMessage(f.code, f.category, f.report)])
               /\ UNCHANGED tools
        ELSE /\ th' = SetFrame(t, RefineExit(g, "raised"))
             /\ UNCHANGED tools
     /\ UNCHANGED <<writes, files, cps, attempts, gatelog, seclog, merges, now, calls, nsub, batch>>

\* refiner.py lines 445-478: refine_tool(tool, trace, task, category,
\* contract), and any other outside caller of refine: the code of a tool, the
\* trace of its failed run, a round limit and optionally a contract.
\* The failing tools handed to refine: one the analyzer rejects and one whose
\* self test fails.
RefinedCodes == {4, 6}

HandedTraces(code) ==
  {execute(code, FALSE)} \cup (IF static_check(code) THEN {TimeoutTrace} ELSE {})

CallRefine(t) ==
  /\ CanStart(t)
  /\ \E code \in RefinedCodes, max_attempts \in 0..(MaxRefineAttempts + 1),
        contract \in {NoContract} \cup ContractIds :
     \E trace \in HandedTraces(code) :
       \* one more attempt than MaxRefineAttempts for one code, no contract
       \* and the trace of its failed self test only
       /\ max_attempts > MaxRefineAttempts
            => (code = 6 /\ contract = NoContract /\ trace = execute(code, FALSE))
       /\ th' = SetFrame(t, [IdleFrame EXCEPT !.pc = "refine_loop", !.job = "refine",
                                              !.code = code, !.stderr = trace.std_err,
                                              !.exit_code = trace.exit_code,
                                              !.contract = contract, !.attempt = 0,
                                              !.max_attempts = max_attempts])
  /\ calls' = calls + 1
  /\ UNCHANGED <<tools, writes, files, cps, attempts, gatelog, seclog, merges, now, nsub, batch>>

(***************************************************************************)
(* SimpleDeduplicator                                                      *)
(***************************************************************************)
\* ToolRegistry.find_by_contract_id: the rows carrying the contract id
find_by_contract_id(contract_id) == {i \in ToolIds : tools[i].contract_id = contract_id}

\* score_tool: (verification_stage, success rate, -avg time, version); the
\* rate is 1.0 for a PROVISIONAL tool and 0.5 otherwise, counted in halves.
score_tool(i) ==
  [stage |-> tools[i].verification_stage,
   rate |-> IF tools[i].status = "provisional" THEN 2 ELSE 1,
   version |-> VersionStr(tools[i].semantic_version)]

\* Python's order on the score tuples
ScoreLess(a, b) ==
  \/ a.stage < b.stage
  \/ a.stage = b.stage /\ a.rate < b.rate
  \/ a.stage = b.stage /\ a.rate = b.rate /\ StrLess(a.version, b.version)

\* merger.py lines 35-74.  scored.sort(reverse=True) sorts (score, tool)
\* tuples: two equal scores make Python compare the tools themselves, which
\* have no order, and the sort raises TypeError.  Otherwise the best tool is
\* kept, the others are deprecated and a merge record is written.
check_and_resolve(new_tool_id, contract_id) ==
  LET active == {i \in find_by_contract_id(contract_id) : tools[i].status # "deprecated"}
      tie == \E i, j \in active : i # j /\ score_tool(i) = score_tool(j)
      best == CHOOSE i \in active : \A j \in active : j # i => ScoreLess(score_tool(j), score_tool(i))
      rest == active \ {best}
  IN IF Cardinality(active) <= 1
       THEN [raised |-> FALSE, action |-> "no_action", tools |-> tools, merges |-> merges]
     ELSE IF tie
       THEN [raised |-> TRUE, action |-> "TypeError", tools |-> tools, merges |-> merges]
     ELSE [raised |-> FALSE,
           action |-> IF best = new_tool_id THEN "kept" ELSE "superseded",
           tools |-> [i \in ToolIds |-> IF i \in rest THEN [tools[i] EXCEPT !.status = "deprecated"]
                                        ELSE tools[i]],
           merges |-> Append(merges, [canonical_tool_id |-> best, source_tool_ids |-> rest,
                                      contract_id |-> contract_id])]

(***************************************************************************)
(* A tool library left by earlier runs, and the deduplicator called on it  *)
(***************************************************************************)
\* The row Synthesizer.synthesize leaves in the registry for a payload named
\* calc_rsi that passed verification with contract calc_rsi: registered with
\* the next version of the name, then updated with category, contract id and
\* the stage reached.
LibraryRow(rows, code) ==
  [name |-> "calc_rsi", code |-> code, semantic_version |-> NextVersionIn(rows, "calc_rsi"),
   status |-> "provisional", category |-> "calculation",
   contract_id |-> "calc_rsi", verification_stage |-> CONTRACT_VALID]

\* The registry after k such calls of synthesize, one after the other, each
\* with a payload of its own (payloads other than the ones of CodeTable).
RECURSIVE Library(_)
Library(k) ==
  IF k = 0 THEN <<>>
  ELSE LET rows == Library(k - 1)
       IN Append(rows, LibraryRow(rows, Len(CodeTable) + k))

\* A run starts on the library an earlier run left.
LibraryInit ==
  \E k \in 0..MaxLibrary :
     /\ tools = Library(k)
     /\ writes = [i \in 1..k |-> [id |-> i, by |-> "synthesizer", sub |-> 0]]
     /\ files = {[name |-> Library(k)[i].name, version |-> Library(k)[i].semantic_version,
                  code |-> Library(k)[i].code] : i \in 1..k}
     /\ cps = [c \in CpIds |-> "absent"]
     /\ attempts = <<>>
     /\ gatelog = EmptyBag
     /\ seclog = 0
     /\ merges = <<>>
     /\ now = 0
     /\ calls = 0
     /\ nsub = 0
     /\ th = [t \in 0..MaxThreads |-> IdleFrame]
     /\ batch = NoBatch

\* check_and_resolve(new_tool_id, contract_id) called on the registry; the
\* deduplication runs while no registration is in flight.
CallResolve(t) ==
  /\ CanLook(t)
  /\ \A u \in Threads : ~Busy(u)
  /\ \E new_tool_id \in ToolIds, contract_id \in ContractIds :
       LET resolved == check_and_resolve(new_tool_id, contract_id)
       IN /\ tools' = resolved.tools
          /\ merges' = resolved.merges
          /\ th' = SetFrame(t, Finish([IdleFrame EXCEPT !.job = "resolve", !.tool = new_tool_id,
                                                        !.refContract = contract_id,
                                                        !.exc = IF resolved.raised THEN "TypeError" ELSE "none",
                                                        !.dedup = resolved.action],
                                      IF resolved.raised THEN "raised" ELSE "ok"))
  /\ UNCHANGED <<writes, files, cps, attempts, gatelog, seclog, now, calls, nsub, batch>>

(***************************************************************************)
(* BatchEvolutionManager.evolve_batch                                      *)
(***************************************************************************)
\* A lookup that finds nothing
_find_existing_tool_none(task) == NoTool

\* _find_existing_tool: the first tool of the task's contract_id tag that is
\* neither deprecated nor failed.
_find_existing_tool(task) ==
  LET active == {i \in find_by_contract_id(TaskTable[task].contract_id) :
                   tools[i].status \notin {"deprecated", "failed"}}
  IN IF TaskTable[task].contract_id = "none" \/ active = {} THEN NoTool
     ELSE CHOOSE i \in active : \A j \in active : i <= j

\* main.py line 100, benchmarks/run_eval.py line 788: registry.get_by_name to
\* pick the tool to run for a task.
CallGetByName(t) ==
  /\ CanLook(t)
  /\ \E name \in RegisterNames :
       th' = SetFrame(t, Finish([IdleFrame EXCEPT !.job = "get_by_name", !.regName = name,
                                                  !.tool = get_by_name(name)], "ok"))
  /\ UNCHANGED <<tools, writes, files, cps, attempts, gatelog, seclog, merges, now, calls, nsub, batch>>

\* batch_manager.py line 125: the warm-start lookup for a task.
CallFindExisting(t) ==
  /\ CanLook(t)
  /\ \E task \in Tasks :
       th' = SetFrame(t, Finish([IdleFrame EXCEPT !.job = "find_existing", !.task = task,
                                                  !.tool = _find_existing_tool(task)], "ok"))
  /\ UNCHANGED <<tools, writes, files, cps, attempts, gatelog, seclog, merges, now, calls, nsub, batch>>

\* A result that never counts as a success
EvolutionResultUnsuccessful(task, success, tool_id, contract_id, reused) ==
  [task |-> task, success |-> FALSE, tool_id |-> tool_id, contract_id |-> contract_id,
   reused |-> reused]

\* batch_manager.py lines 128-139, 162-169, 245-267: the fields of an
\* EvolutionResult the report's readers use.
EvolutionResult(task, success, tool_id, contract_id, reused) ==
  [task |-> task, success |-> success, tool_id |-> tool_id, contract_id |-> contract_id,
   reused |-> reused]

RECURSIVE TaskLists(_)
TaskLists(n) ==
  IF n = 0 THEN {<<>>}
  ELSE LET shorter == TaskLists(n - 1)
       IN shorter \cup {Append(l, task) : l \in {s \in shorter : Len(s) = n - 1}, task \in Tasks}

\* batch_manager.py lines 99-117: a round starts on a task list.
CallBatch ==
  /\ batch.phase \in {"idle", "returned", "raised"}
  /\ calls < MaxRounds
  /\ \E tasks \in TaskLists(MaxBatchTasks) \ {<<>>} :
       batch' = [NoBatch EXCEPT !.phase = "dispatch", !.tasks = tasks]
  /\ calls' = calls + 1
  /\ UNCHANGED <<tools, writes, files, cps, attempts, gatelog, seclog, merges, now, nsub, th>>

\* batch_manager.py lines 119-144: the dispatch loop, one task: reuse an
\* existing tool of the task's contract, or submit the task to the pool.
BatchDispatch ==
  LET task == batch.tasks[batch.next]
      existing == _find_existing_tool(task)
      reuse == EvolutionResult(task, TRUE, existing, tools[existing].contract_id, TRUE)
      last == batch.next = Len(batch.tasks)
  IN /\ batch.phase = "dispatch"
     /\ batch' = IF existing # NoTool
                   THEN [batch EXCEPT !.results = Append(@, reuse),
                                      !.synthesis_success = @ + 1,
                                      !.registration_success = @ + 1,
                                      !.reused_count = @ + 1,
                                      !.next = @ + 1,
                                      !.phase = IF ~last THEN "dispatch"
                                                ELSE IF batch.outstanding = 0 THEN "dedup" ELSE "collect"]
                   ELSE [batch EXCEPT !.queue = Append(@, task),
                                      !.outstanding = @ + 1,
                                      !.next = @ + 1,
                                      !.phase = IF last THEN "collect" ELSE "dispatch"]
     /\ UNCHANGED <<tools, writes, files, cps, attempts, gatelog, seclog, merges, now, calls, nsub, th>>

\* A collection loop that leaves the pool after the first future
PhaseAfterCollectFirst(outstanding) == "dedup"

\* batch_manager.py lines 121 and 151: the loop over as_completed(futures)
\* ends with the last future, and the pool's with-block is left only then.
PhaseAfterCollect(outstanding) == IF outstanding = 1 THEN "dedup" ELSE "collect"

\* batch_manager.py lines 146-166 and 243-267: as_completed hands over a
\* finished future; its result is what _synthesize_one made of the tool
\* synthesize_with_refine returned (the object as register returned it) or
\* of the exception it raised.
BatchCollect(t) ==
  LET f == th[t]
      result == IF f.result = "raised" THEN EvolutionResult(f.task, FALSE, NoTool, NoContract, FALSE)
                ELSE IF f.tool # NoTool THEN EvolutionResult(f.task, TRUE, f.tool, f.tcid, FALSE)
                ELSE EvolutionResult(f.task, FALSE, NoTool, f.contract, FALSE)
  IN /\ batch.phase = "collect"
     /\ f.pc = "worker_done"
     /\ batch' = [batch EXCEPT !.results = Append(@, result),
                               !.pending = IF result.success THEN Append(@, result) ELSE @,
                               !.synthesis_success = IF result.success THEN @ + 1 ELSE @,
                               !.registration_success = IF result.success THEN @ + 1 ELSE @,
                               !.outstanding = @ - 1,
                               !.overdue = @ \ {t},
                               !.phase = PhaseAfterCollect(batch.outstanding)]
     /\ th' = SetFrame(t, IdleFrame)
     /\ UNCHANGED <<tools, writes, files, cps, attempts, gatelog, seclog, merges, now, calls, nsub>>

\* batch_manager.py lines 171-178: the deduplication pass, one pending
\* result: only a result with a tool id and a contract id is resolved.  An
\* exception of check_and_resolve ends evolve_batch.
BatchDedup ==
  LET result == batch.pending[batch.dedupIdx]
      resolved == check_and_resolve(result.tool_id, result.contract_id)
  IN /\ batch.phase = "dedup"
     /\ batch.dedupIdx <= Len(batch.pending)
     /\ IF result.tool_id # NoTool /\ result.contract_id # NoContract
          THEN /\ tools' = resolved.tools
               /\ merges' = resolved.merges
               /\ batch' = IF resolved.raised
                             THEN [batch EXCEPT !.phase = "raised"]
                             ELSE [batch EXCEPT !.dedupIdx = @ + 1,
                                                !.dedup_merged = IF resolved.action = "superseded"
                                                                   THEN @ + 1 ELSE @]
          ELSE /\ batch' = [batch EXCEPT !.dedupIdx = @ + 1]
               /\ UNCHANGED <<tools, merges>>
     /\ UNCHANGED <<writes, files, cps, attempts, gatelog, seclog, now, calls, nsub, th>>

\* batch_manager.py lines 180-185: record the metrics and return the report.
BatchReturn ==
  /\ batch.phase = "dedup"
  /\ batch.dedupIdx > Len(batch.pending)
  /\ batch' = [batch EXCEPT !.phase = "returned"]
  /\ UNCHANGED <<tools, writes, files, cps, attempts, gatelog, seclog, merges, now, calls, nsub, th>>

\* batch_manager.py lines 187-201: evolve_multi_round(tasks, num_rounds)
\* starts its first round on the task list.
CallMultiRound ==
  /\ batch.phase = "idle"
  /\ \E tasks \in TaskLists(MaxBatchTasks) \ {<<>>}, num_rounds \in 2..(MaxRounds + 1) :
       batch' = [NoBatch EXCEPT !.phase = "dispatch", !.tasks = tasks, !.round = 1,
                                !.num_rounds = num_rounds]
  /\ calls' = calls + 1
  /\ UNCHANGED <<tools, writes, files, cps, attempts, gatelog, seclog, merges, now, nsub, th>>

\* batch_manager.py lines 180-185 and 199-207: evolve_batch returns its
\* report to the loop of evolve_multi_round, which appends it and starts the
\* next round on the same task list, or returns the reports after the last.
RoundReturn ==
  LET report == [round_number |-> batch.round, results |-> batch.results,
                 reused_count |-> batch.reused_count]
      reports == Append(batch.reports, report)
  IN /\ batch.phase = "dedup"
     /\ batch.dedupIdx > Len(batch.pending)
     /\ batch.round >= 1
     /\ batch' = IF batch.round < batch.num_rounds
                   THEN [NoBatch EXCEPT !.phase = "dispatch", !.tasks = batch.tasks,
                                        !.round = batch.round + 1,
                                        !.num_rounds = batch.num_rounds, !.reports = reports]
                   ELSE [batch EXCEPT !.phase = "returned", !.reports = reports]
     /\ UNCHANGED <<tools, writes, files, cps, attempts, gatelog, seclog, merges, now, calls, nsub, th>>

\* batch_manager.py lines 88-96 and 154: time passes: the task of a worker
\* that is still inside _synthesize_one has now been running for more than
\* task_timeout_sec + 30 seconds, while evolve_batch waits in as_completed.
TimeoutPasses(t) ==
  /\ batch.phase = "collect"
  /\ th[t].job = "worker"
  /\ th[t].pc \notin {"idle", "worker_done"}
  /\ t \notin batch.overdue
  /\ batch' = [batch EXCEPT !.overdue = @ \cup {t}]
  /\ UNCHANGED <<tools, writes, files, cps, attempts, gatelog, seclog, merges, now, calls, nsub, th>>

\* executor.py lines 194-230: execute(code, func_name, args, task_id) called
\* by the task executor or a test: the static check; a rejected payload is
\* logged and answered at once, any other gets its runner script and child
\* process.
CallExecute(t) ==
  /\ CanStart(t)
  /\ \E code \in Codes :
       LET trace == execute(code, TRUE)
           f == [IdleFrame EXCEPT !.job = "execute", !.code = code, !.spawned = trace.spawned]
       IN /\ th' = SetFrame(t, IF trace.spawned
                                  THEN [f EXCEPT !.pc = "exec_child"]
                                  ELSE Finish([f EXCEPT !.exit_code = trace.exit_code,
                                                        !.stderr = trace.std_err], "ok"))
          /\ seclog' = seclog + trace.seclines
  /\ calls' = calls + 1
  /\ UNCHANGED <<tools, writes, files, cps, attempts, gatelog, merges, now, nsub, batch>>

\* executor.py lines 232-335: the child process ended or was killed at the
\* timeout; execute returns its trace.
ExecuteChild(t) ==
  LET f == th[t]
  IN /\ f.pc = "exec_child"
     /\ \E trace \in {tr \in ChildTraces(f.code) : tr.spawned} :
          th' = SetFrame(t, Finish([f EXCEPT !.exit_code = trace.exit_code,
                                             !.stderr = trace.std_err], "ok"))
     /\ UNCHANGED <<tools, writes, files, cps, attempts, gatelog, seclog, merges, now, calls, nsub, batch>>

\* executor.py lines 93-103: static_check(code) returns (is_safe, error).
StaticCheckReturn(t) ==
  LET f == th[t]
      checked == static_check_source(f.source)
  IN /\ f.pc = "static_check"
     /\ th' = SetFrame(t, Finish([f EXCEPT !.error = checked.error],
                                  IF checked.is_safe THEN "safe" ELSE "unsafe"))
     /\ UNCHANGED <<tools, writes, files, cps, attempts, gatelog, seclog, merges, now, calls, nsub, batch>>

\* A caller has handed static_check a source of up to MaxLines lines.
StaticCheckInit ==
  /\ tools = <<>>
  /\ writes = <<>>
  /\ cps = [c \in CpIds |-> "absent"]
  /\ attempts = <<>>
  /\ gatelog = EmptyBag
  /\ seclog = 0
  /\ merges = <<>>
  /\ now = 0
  /\ calls = 1
  /\ nsub = 0
  /\ files = {}
  /\ batch = NoBatch
  /\ \E source \in Sources(MaxLines) :
       th = [t \in 0..MaxThreads |->
               IF t = 1 THEN [IdleFrame EXCEPT !.pc = "static_check", !.job = "static_check",
                                               !.source = source]
               ELSE IdleFrame]

(***************************************************************************)
(* Specifications.                                                         *)
(***************************************************************************)
GatewayNext ==
  \/ \E t \in Threads : CallSubmit(t)
  \/ \E t \in Threads : RegWrite(t)
  \/ \E t \in Threads : SubmitUpdate(t)
  \/ \E t \in Threads : CallGate(t)
  \/ \E t \in Threads : GateRun(t)

\* Concurrent callers of the gateway and of the gatekeeper.
GatewaySpec == Init /\ [][GatewayNext]_vars

SynthNext ==
  \/ \E t \in Threads : CallSubmit(t)
  \/ \E t \in Threads : SubmitUpdate(t)
  \/ \E t \in Threads : CallSynthesize(t)
  \/ \E t \in Threads : SynthUpdate(t)
  \/ \E t \in Threads : CallRetry(t)
  \/ \E t \in Threads : RetryAttempt(t)
  \/ \E t \in Threads : RetryReturn(t)
  \/ \E t \in Threads : RegWrite(t)

\* Concurrent callers of the gateway and of the synthesizer.
SynthSpec == Init /\ [][SynthNext]_vars

BatchNext ==
  \/ CallBatch
  \/ BatchDispatch
  \/ \E t \in Threads : WorkerStart(t)
  \/ \E t \in Threads : RegWrite(t)
  \/ \E t \in Threads : SynthUpdate(t)
  \/ \E t \in Threads : SwrAfterSynth(t)
  \/ \E t \in Threads : RefineAttempt(t)
  \/ \E t \in Threads : RefineAfterSubmit(t)
  \/ \E t \in Threads : BatchCollect(t)
  \/ BatchDedup
  \/ BatchReturn

\* Successive rounds of evolve_batch on an initially empty registry.
BatchSpec == Init /\ [][BatchNext]_vars

BatchTimedNext ==
  \/ CallBatch
  \/ BatchDispatch
  \/ \E t \in Threads : WorkerStart(t)
  \/ \E t \in Threads : RegWrite(t)
  \/ \E t \in Threads : SynthUpdate(t)
  \/ \E t \in Threads : SwrAfterSynth(t)
  \/ \E t \in Threads : RefineAttempt(t)
  \/ \E t \in Threads : RefineAfterSubmit(t)
  \/ \E t \in Threads : TimeoutPasses(t)
  \/ \E t \in Threads : BatchCollect(t)
  \/ BatchDedup
  \/ BatchReturn

\* evolve_batch with tasks that outlast the per-task timeout.
BatchTimedSpec == Init /\ [][BatchTimedNext]_vars

StaticCheckNext == \E t \in Threads : StaticCheckReturn(t)

\* static_check applied to every source of up to MaxLines lines.
StaticCheckSpec == StaticCheckInit /\ [][StaticCheckNext]_vars

CrashNext ==
  \/ \E t \in Threads : CallSubmit(t)
  \/ \E t \in Threads : RegWrite(t)
  \/ \E t \in Threads : SubmitUpdate(t)
  \/ \E t \in Threads : CallGate(t)
  \/ \E t \in Threads : GateRun(t)
  \/ Restart

\* The gateway and the gatekeeper in a process that can stop at any moment
\* and be started again.
CrashSpec == Init /\ [][CrashNext]_vars

ApprovalNext ==
  \/ \E t \in Threads : RequestApproval(t)
  \/ \E t \in Threads : ApprovalTimeoutPasses(t)
  \/ \E t \in Threads : ApproverAnswers(t)
  \/ \E t \in Threads : GateRun(t)

\* Concurrent APPROVAL-tier actions in prod mode and their approver.
ApprovalSpec == Init /\ [][ApprovalNext]_vars

EvalNext ==
  \/ \E t \in Threads : CallRunAllTasks(t)
  \/ \E t \in Threads : EvalLoopCheck(t)
  \/ \E t \in Threads : run_task(t)
  \/ \E t \in Threads : _handle_interrupt(t)

\* The evaluation loop and the operator's interrupt.
EvalSpec == Init /\ [][EvalNext]_vars

ExecuteNext ==
  \/ \E t \in Threads : CallExecute(t)
  \/ \E t \in Threads : ExecuteChild(t)

\* Concurrent callers of ToolExecutor.execute.
ExecuteSpec == Init /\ [][ExecuteNext]_vars

RefineNext ==
  \/ \E t \in Threads : CallRefine(t)
  \/ \E t \in Threads : RefineAttempt(t)
  \/ \E t \in Threads : RefineAfterSubmit(t)
  \/ \E t \in Threads : RegWrite(t)
  \/ \E t \in Threads : SubmitUpdate(t)

\* Concurrent callers of Refiner.refine.
RefineSpec == Init /\ [][RefineNext]_vars

MultiRoundNext ==
  \/ CallMultiRound
  \/ BatchDispatch
  \/ \E t \in Threads : WorkerStart(t)
  \/ \E t \in Threads : RegWrite(t)
  \/ \E t \in Threads : SynthUpdate(t)
  \/ \E t \in Threads : SwrAfterSynth(t)
  \/ \E t \in Threads : RefineAttempt(t)
  \/ \E t \in Threads : RefineAfterSubmit(t)
  \/ \E t \in Threads : BatchCollect(t)
  \/ BatchDedup
  \/ RoundReturn

\* Successive rounds of evolve_multi_round on an initially empty registry.
MultiRoundSpec == Init /\ [][MultiRoundNext]_vars

\* Callers of the registry on a library that earlier runs left.
RegistryNext ==
  \/ \E t \in Threads : CallRegister(t)
  \/ \E t \in Threads : RegWrite(t)

RegistrySpec == LibraryInit /\ [][RegistryNext]_vars

LibraryNext ==
  \/ \E t \in Threads : CallSynthesize(t)
  \/ \E t \in Threads : RegWrite(t)
  \/ \E t \in Threads : SynthUpdate(t)
  \/ \E t \in Threads : CallResolve(t)

\* Callers of the synthesizer and of the deduplicator on a library that
\* earlier runs left.
LibrarySpec == LibraryInit /\ [][LibraryNext]_vars

\* The same callers, and the lookups that pick a tool for a task.
LookupNext ==
  \/ \E t \in Threads : CallSynthesize(t)
  \/ \E t \in Threads : RegWrite(t)
  \/ \E t \in Threads : SynthUpdate(t)
  \/ \E t \in Threads : CallResolve(t)
  \/ \E t \in Threads : CallGetByName(t)
  \/ \E t \in Threads : CallFindExisting(t)

\* The lookups are followed on the smaller libraries.
LookupInit == LibraryInit /\ Len(tools) <= MaxLookupLibrary

LookupSpec == LookupInit /\ [][LookupNext]_vars

TypeOK ==
  /\ now \in 0..MaxTime
  /\ calls \in 0..MaxCalls
  /\ \A t \in Threads : th[t].code \in Codes \cup {NoCode} \cup {tools[i].code : i \in ToolIds}
  /\ \A i \in ToolIds : tools[i].status \in {"provisional", "verified", "deprecated", "failed"}

(***************************************************************************)
(* Properties.                                                             *)
(***************************************************************************)
\* The frames of gateway submissions called from outside: in flight, and the
\* latest one that returned.
Slots == 0..MaxThreads

IsSubmission(f) == f.job = "submit" /\ f.sub > 0

\* The rows a submission inserted
WrittenBy(sub) == {i \in 1..Len(writes) : writes[i].by = "gateway" /\ writes[i].sub = sub}

\* The position of the first occurrence of event e in ev, 0 when absent
Idx(ev, e) ==
  IF \E i \in 1..Len(ev) : ev[i] = e
    THEN CHOOSE i \in 1..Len(ev) : ev[i] = e /\ \A j \in 1..(i - 1) : ev[j] # e
    ELSE 0

\* If b happened, a happened before it
Precedes(ev, a, b) == Idx(ev, b) # 0 => (Idx(ev, a) # 0 /\ Idx(ev, a) < Idx(ev, b))

\* The lines a submission appended to the attempts log
LinesOf(sub) == IF sub \in 1..Len(attempts) THEN attempts[sub] ELSE <<>>

\* C1: every row of the registry was inserted by the gateway's submit; no
\* other component called registry.register to insert it.
C1_OnlyGatewayWrites ==
  \A i \in 1..Len(writes) : writes[i].by = "gateway"

C3_RetryRegistersVerifiedOnly ==
  \A t \in Threads :
     (th[t].job = "retry" /\ th[t].attempt >= 1 /\ th[t].pc \in {"reg_write", "retry_done"}) =>
        verify_all_stages(th[t].code, th[t].category, th[t].contract, FALSE).passed

\* C4: a call of submit that is over has appended exactly one line to the
\* attempts log, and the line's success field is the boolean submit returned.
C4_OneLinePerSubmit ==
  (returned.job = "submit" /\ returned.result # "none") =>
     /\ Len(LinesOf(returned.sub)) = 1
     /\ LinesOf(returned.sub)[1].success = (returned.result = "ok")

C7_FailedCheckpointNoArtifact ==
  (IsSubmission(returned) /\ returned.cpEnd = "failed") => WrittenBy(returned.sub) = {}

\* C8: when the verifier, the gatekeeper, registry.register or the metadata
\* update raised during submit, the submission's checkpoint ended failed, the
\* last line the submission logged is an ERROR entry and submit raised.
C8_ErrorPath ==
  \A t \in Slots :
     (IsSubmission(th[t]) /\ th[t].exc \in {"verifier", "gatekeeper", "register", "update"}) =>
        /\ th[t].result = "raised"
        /\ th[t].cpEnd = "failed"
        /\ Len(LinesOf(th[t].sub)) = 2
        /\ LinesOf(th[t].sub)[2] = [action |-> "ERROR", success |-> FALSE, sub |-> th[t].sub]

\* C8 witness: the metadata update raised after registry.register had
\* inserted the row.
C8_Witness ==
  /\ IsSubmission(returned)
  /\ returned.exc = "update"
  /\ returned.result = "raised"
  /\ WrittenBy(returned.sub) # {}

\* C9: a step in which submit rejects a submission at AST_SECURITY appends a
\* line to security_violations.log and returns (false, none, report) with
\* AST_SECURITY as the first, failed stage.
C9_AstRejectionLogged ==
  [][(/\ returned' # returned
      /\ IsSubmission(returned')
      /\ returned'.result = "rejected"
      /\ returned'.report.stages # <<>>
      /\ returned'.report.stages[1] = StageResult(AST_SECURITY, "fail"))
     => (seclog' > seclog /\ returned'.tool = NoTool)]_vars

\* C10: when evolve_batch has returned, every contract id has at most one
\* artifact that is not deprecated.
C10_OneActiveToolPerContract ==
  batch.phase = "returned" =>
     \A c \in ContractIds :
        Cardinality({i \in ToolIds : tools[i].contract_id = c /\ tools[i].status # "deprecated"}) <= 1

\* The artifacts of contract c in rows whose status is not DEPRECATED
ActiveOf(rows, c) ==
  {i \in 1..Len(rows) : rows[i].contract_id = c /\ rows[i].status # "deprecated"}

\* A step that is a lookup or a deduplication of the given kind: nothing but
\* the slot of the latest return changes
LookupStep(job) ==
  /\ returned' # returned
  /\ returned'.job = job
  /\ \A t \in Threads : th'[t] = th[t]

\* A step that is a call of check_and_resolve
ResolveStep == LookupStep("resolve")

\* Versions compared as numbers: major, then minor, then patch
VersionLess(a, b) ==
  \/ a[1] < b[1]
  \/ a[1] = b[1] /\ a[2] < b[2]
  \/ a[1] = b[1] /\ a[2] = b[2] /\ a[3] < b[3]

\* The score tuples of rows i and j compared lexicographically, the versions
\* as numbers
NumScoreLess(rows, i, j) ==
  LET rate(k) == IF rows[k].status = "provisional" THEN 2 ELSE 1
  IN \/ rows[i].verification_stage < rows[j].verification_stage
     \/ /\ rows[i].verification_stage = rows[j].verification_stage
        /\ rate(i) < rate(j)
     \/ /\ rows[i].verification_stage = rows[j].verification_stage
        /\ rate(i) = rate(j)
        /\ VersionLess(rows[i].semantic_version, rows[j].semantic_version)

\* C11: at the end of a call of check_and_resolve(new_tool_id, contract_id)
\* at most one artifact of that contract id has a status other than
\* DEPRECATED.
C11_OneActiveAfterResolve ==
  [][ResolveStep => Cardinality(ActiveOf(tools', returned'.refContract)) <= 1]_vars

\* C12: check_and_resolve returns no_action exactly when at most one
\* artifact of the contract is not deprecated, and then changes nothing; kept
\* exactly when new_tool_id is the one artifact of the contract left active by
\* the call; superseded exactly when the call set new_tool_id to DEPRECATED.
C12_ReturnValueMeaning ==
  [][ResolveStep =>
       LET c == returned'.refContract
           new == returned'.tool
           r == returned'.dedup
           before == ActiveOf(tools, c)
       IN /\ (r = "no_action") <=> (Cardinality(before) <= 1)
          /\ (r = "no_action") => (tools' = tools /\ merges' = merges)
          /\ (r = "kept") <=> (Cardinality(before) > 1 /\ ActiveOf(tools', c) = {new})
          /\ (r = "superseded") <=> (tools[new].status # "deprecated" /\
                                     tools'[new].status = "deprecated")]_vars

\* C13: when check_and_resolve demotes tools, no candidate has a greater
\* score than the survivor, the scores compared lexicographically with the
\* versions as numbers; in particular no candidate is at a higher
\* verification stage than the survivor.
C13_SurvivorHasMaximalScore ==
  [][(ResolveStep /\ tools' # tools) =>
       LET c == returned'.refContract
       IN \A s \in ActiveOf(tools', c) : \A j \in ActiveOf(tools, c) :
             /\ ~NumScoreLess(tools, s, j)
             /\ tools[j].verification_stage <= tools[s].verification_stage]_vars

\* A step in which register, called by thread t for a new payload, reads the
\* rows of the payload's name and computes the version of the new artifact
RegReadStep(t) == th[t].pc # "reg_write" /\ th'[t].pc = "reg_write"

\* C14: the version register computes for a newly created artifact is
\* strictly greater, as a numeric major.minor.patch triple, than the version
\* of every artifact already registered under the same name, however many
\* versions of the name exist.
C14_VersionsStrictlyIncrease ==
  [][\A t \in Threads : RegReadStep(t) =>
        \A i \in ToolIds : tools[i].name = th'[t].regName =>
           VersionLess(tools[i].semantic_version, th'[t].regVersion)]_vars

\* C15: under any interleaving of the registrations of concurrent batch
\* workers the registry never holds two artifacts with the same name and
\* the same semantic version.
C15_UniqueNameVersion ==
  \A i, j \in ToolIds :
     (tools[i].name = tools[j].name /\ tools[i].semantic_version = tools[j].semantic_version) => i = j

\* A step in which register is called with payload c: the call either
\* returns at once (only the slot of the latest return changes) or goes on to
\* its write on thread t
RegisterStart(c) ==
  /\ calls' = calls + 1
  /\ \/ /\ \A t \in Threads : th'[t] = th[t]
        /\ returned'.job = "register" /\ returned'.code = c
     \/ \E t \in Threads : th[t].pc = "idle" /\ th'[t].job = "register" /\ th'[t].code = c

\* C16: a call of register with a payload the registry already holds, under
\* whatever name and after whatever other registrations, returns the artifact
\* that holds the payload (the id the first registration returned) and adds
\* no row and no file.
C16_SameCodeSameId ==
  [][\A c \in RegisterCodes :
       (RegisterStart(c) /\ \E i \in ToolIds : tools[i].code = c) =>
          /\ returned'.job = "register" /\ returned'.pc = "done" /\ returned'.exc = "none"
          /\ returned'.tool \in ToolIds
          /\ tools[returned'.tool].code = c
          /\ \A i \in ToolIds : tools[i].code = c => i = returned'.tool
          /\ tools' = tools
          /\ files' = files
          /\ \A t \in Threads : th'[t] = th[t]]_vars

\* A call of register returned an artifact registered under another name
\* than the one the call supplied: the payload was registered before.
C16_Witness ==
  /\ returned.job = "register" /\ returned.pc = "done" /\ returned.exc = "none"
  /\ returned.tool \in ToolIds
  /\ tools[returned.tool].name # returned.regName
  /\ tools[returned.tool].code = returned.code
  /\ Len(tools) >= 2

\* C17: every artifact of the registry has its file, of the artifact's name
\* and version, holding the artifact's payload.
C17_EveryArtifactHasItsFile ==
  \A i \in ToolIds :
     [name |-> tools[i].name, version |-> tools[i].semantic_version, code |-> tools[i].code] \in files

\* A direct call of register created an artifact next to others, and a
\* registration that failed on the unique hash left a file without a row.
C17_Witness ==
  /\ \E i \in ToolIds : writes[i].by = "caller"
  /\ Len(tools) >= 2
  /\ \E file \in files : \A i \in ToolIds :
        ~(tools[i].name = file.name /\ tools[i].semantic_version = file.version)

\* C18: neither the warm-start lookup of the batch manager nor get_by_name
\* ever returns an artifact whose status is DEPRECATED.
C18_LookupsSkipDeprecated ==
  [][(LookupStep("get_by_name") \/ LookupStep("find_existing")) =>
        (returned'.tool # NoTool => tools[returned'.tool].status # "deprecated")]_vars

\* The tools a task's contract id resolves to: the artifacts carrying the
\* contract id the task is tagged with that are neither deprecated nor failed
ActiveFor(task) ==
  {i \in ToolIds : /\ TaskTable[task].contract_id # "none"
                   /\ tools[i].contract_id = TaskTable[task].contract_id
                   /\ tools[i].status \notin {"deprecated", "failed"}}

\* A step of the dispatch loop of evolve_batch: the next task is handled
DispatchStep == batch.phase = "dispatch" /\ batch'.next = batch.next + 1

\* C19: a task whose contract id resolves to an existing active artifact is
\* recorded as a successful, reused result with the id of such an artifact,
\* and is not handed to a synthesis worker.
C19_ActiveToolIsReused ==
  [][(DispatchStep /\ ActiveFor(batch.tasks[batch.next]) # {}) =>
       LET task == batch.tasks[batch.next]
           n == Len(batch'.results)
       IN /\ n = Len(batch.results) + 1
          /\ batch'.results[n].task = task
          /\ batch'.results[n].reused /\ batch'.results[n].success
          /\ batch'.results[n].tool_id \in ActiveFor(task)
          /\ batch'.reused_count = batch.reused_count + 1
          /\ batch'.queue = batch.queue
          /\ batch'.outstanding = batch.outstanding
          /\ th' = th]_vars

\* A batch recorded a reuse of a tool that carries the task's contract id
C19_Witness ==
  \E n \in 1..Len(batch.results) :
     /\ batch.results[n].reused
     /\ batch.results[n].tool_id \in ToolIds
     /\ tools[batch.results[n].tool_id].contract_id = TaskTable[batch.results[n].task].contract_id
     /\ batch.reused_count >= 1

\* C20: in evolve_multi_round every task that got a tool in round k is
\* served by reuse in round k+1, and the reused count of round k+1 is not
\* below the one of round k.
C20_NextRoundReuses ==
  \A k \in 1..(Len(batch.reports) - 1) :
     LET this == batch.reports[k]
         next == batch.reports[k + 1]
     IN /\ \A a \in 1..Len(this.results), b \in 1..Len(next.results) :
             (/\ this.results[a].success
              /\ this.results[a].tool_id # NoTool
              /\ next.results[b].task = this.results[a].task) => next.results[b].reused
        /\ next.reused_count >= this.reused_count

(***************************************************************************)
(* C21: in evolve_batch no check_and_resolve call starts before every      *)
(* synthesis worker of the batch has finished, and while the               *)
(* deduplication phase runs no worker moves and no row is inserted or      *)
(* updated by the batch's synthesis.                                       *)
(***************************************************************************)
C21_DedupSeesQuiescentRegistry ==
  [][batch.phase = "dedup" =>
        /\ \A t \in Threads : ~Busy(t)
        /\ batch.queue = <<>> /\ batch.outstanding = 0
        /\ th' = th /\ writes' = writes /\ files' = files
        /\ (tools' # tools => merges' # merges)]_vars

\* The deduplication phase runs on a row a worker of the batch registered.
C21_Witness ==
  /\ batch.phase = "dedup"
  /\ batch.dedupIdx <= Len(batch.pending)
  /\ \E i \in ToolIds : writes[i].by # "none" /\ batch.pending[batch.dedupIdx].tool_id = i

\* The number of entries of a sequence that satisfy a test
CountOf(seq, Test(_)) == Cardinality({i \in 1..Len(seq) : Test(seq[i])})

(***************************************************************************)
(* C22: once the futures of an evolve_batch call are collected, and in the *)
(* report it returns, every input task has exactly one entry in            *)
(* report.results (reused, synthesized, failed or crashed), and            *)
(* reused_count <= synthesis_success = registration_success = number of    *)
(* successful results <= total_tasks.                                      *)
(***************************************************************************)
C22_ReportCountsAreAccurate ==
  batch.phase \in {"dedup", "returned"} =>
    LET successes == CountOf(batch.results, LAMBDA r : r.success)
    IN /\ Len(batch.results) = Len(batch.tasks)
       /\ \A task \in Tasks :
             CountOf(batch.results, LAMBDA r : r.task = task)
               = CountOf(batch.tasks, LAMBDA x : x = task)
       /\ batch.reused_count = CountOf(batch.results, LAMBDA r : r.reused)
       /\ batch.reused_count <= batch.synthesis_success
       /\ batch.synthesis_success = batch.registration_success
       /\ batch.registration_success = successes
       /\ successes <= Len(batch.tasks)

\* A returned report of two tasks, one synthesized and one whose worker
\* ended without a tool.
C22_Witness ==
  /\ batch.phase = "returned"
  /\ Len(batch.tasks) = 2
  /\ \E i, j \in 1..Len(batch.results) :
        /\ batch.results[i].success /\ ~batch.results[i].reused
        /\ ~batch.results[j].success

\* evolve_batch takes the future of worker t out of as_completed and appends
\* its result to report.results.
CollectStep(t) ==
  /\ batch.phase = "collect"
  /\ th[t].pc = "worker_done"
  /\ th'[t].pc = "idle"
  /\ Len(batch'.results) = Len(batch.results) + 1

(***************************************************************************)
(* C23: evolve_batch enforces the per-task timeout: a task whose synthesis *)
(* had not finished within the per-task timeout is recorded as a failed    *)
(* result.                                                                 *)
(***************************************************************************)
C23_OverdueTaskIsRecordedFailed ==
  [][\A t \in Threads :
        (CollectStep(t) /\ t \in batch.overdue) =>
           ~batch'.results[Len(batch'.results)].success]_vars

\* The stderr carries one of the markers of UNFIXABLE_ERRORS.
HasMarker(stderr) == \E marker \in UNFIXABLE_ERRORS : Contains(stderr, marker)

\* Thread t is in refine, called from outside, and nothing of the loop's body
\* has run yet: the current trace is the one the caller handed in.
RefineHanded(t) ==
  /\ th[t].pc = "refine_loop"
  /\ th[t].job = "refine"
  /\ th[t].attempt = 0

(***************************************************************************)
(* C24: when the trace handed to refine has a stderr containing one of the *)
(* unfixable-error markers, the first thing refine does is to return       *)
(* (none, []): no LLM call, no sleep, no error report and no gateway       *)
(* submission were made.                                                   *)
(***************************************************************************)
C24_UnfixableTraceReturnsAtOnce ==
  [][\A t \in Threads :
        (RefineHanded(t) /\ HasMarker(th[t].stderr) /\ th'[t] # th[t]) =>
           /\ th'[t].pc = "idle"
           /\ returned'.job = "refine" /\ returned'.result = "rejected"
           /\ returned'.tool = NoTool
           /\ returned'.error_reports = 0
           /\ returned'.llm_calls = 0
           /\ returned'.sleeps = 0
           /\ returned'.submits = 0
           /\ nsub' = nsub /\ attempts' = attempts /\ tools' = tools]_vars

\* refine returned on a handed trace "SecurityException: Banned import",
\* with rounds to spare.
C24_Witness ==
  /\ returned.job = "refine"
  /\ returned.result = "rejected"
  /\ returned.max_attempts >= 1
  /\ returned.attempt = 0
  /\ Contains(returned.stderr, "SecurityException")
  /\ Len(returned.stderr) > 1

\* The stderr reports a rejection by the static analyzer.
StaticRejection(stderr) ==
  Contains(stderr, "Banned import") \/ Contains(stderr, "Unallowed import")

(***************************************************************************)
(* C25: a security rejection is never retried: once the current failure of *)
(* refine is a rejection by the static check, whether it was handed in or  *)
(* comes from a patch the gateway rejected at AST_SECURITY, refine returns *)
(* without a further LLM call and without a further submission.            *)
(***************************************************************************)
C25_SecurityRejectionNeverRetried ==
  [][\A t \in Threads :
        (th[t].pc = "refine_loop" /\ th[t].job = "refine"
           /\ StaticRejection(th[t].stderr) /\ th'[t] # th[t]) =>
           /\ th'[t].pc = "idle"
           /\ returned'.llm_calls = th[t].llm_calls
           /\ returned'.submits = th[t].submits
           /\ nsub' = nsub]_vars

(***************************************************************************)
(* C26: when the failure handed to refine is an executor timeout (exit     *)
(* code 124 with the executor's timeout stderr), refine aborts: it returns *)
(* without an analysis, a patch or a submission.                           *)
(***************************************************************************)
C26_ExecutorTimeoutIsUnfixable ==
  [][\A t \in Threads :
        (RefineHanded(t) /\ th[t].max_attempts >= 1
           /\ th[t].exit_code = TimeoutTrace.exit_code
           /\ th[t].stderr = TimeoutTrace.std_err
           /\ th'[t] # th[t]) =>
           /\ th'[t].pc = "idle"
           /\ returned'.result = "rejected"
           /\ returned'.error_reports = 0
           /\ returned'.llm_calls = 0
           /\ returned'.submits = 0
           /\ nsub' = nsub]_vars

C28_RefinerGetsRejectedCode ==
  [][\A t \in Threads :
        (th[t].pc = "swr_ret" /\ th[t].tool = NoTool /\ th[t].code # NoCode
           /\ th'[t].pc = "refine_loop") =>
           /\ th'[t].code = th[t].code
           /\ th'[t].stderr = th[t].stderr]_vars

\* The frame a call that has just started left: the caller's own, or, when
\* the call returned at once, the returned one.
StartedFrame ==
  IF \A t \in Threads : th'[t] = th[t] THEN returned'
  ELSE th'[CHOOSE t \in Threads : th'[t] # th[t]]

(***************************************************************************)
(* C29: execute spawns a child process only if static_check of the code    *)
(* returned safe; for unsafe code it spawns nothing, appends one line to   *)
(* the security-violation log and returns a trace with exit code 1 whose   *)
(* stderr carries SecurityException.                                       *)
(***************************************************************************)
C29_SpawnOnlyAfterSafeCheck ==
  [][/\ \A k \in 0..MaxThreads :
          (th'[k].job = "execute" /\ th'[k].spawned) => static_check(th'[k].code)
     /\ (calls' = calls + 1 /\ StartedFrame.job = "execute"
           /\ ~static_check(StartedFrame.code)) =>
          /\ StartedFrame.pc = "done"
          /\ ~StartedFrame.spawned
          /\ StartedFrame.exit_code = 1
          /\ Contains(StartedFrame.stderr, "SecurityException")
          /\ seclog' = seclog + 1
     /\ (calls' = calls + 1 /\ StartedFrame.job = "execute"
           /\ static_check(StartedFrame.code)) =>
          /\ StartedFrame.spawned
          /\ seclog' = seclog]_vars

\* execute returned the rejection of a payload that imports os, and the log
\* has its line.
C29_Witness ==
  /\ returned.job = "execute"
  /\ ~static_check(returned.code)
  /\ returned.exit_code = 1
  /\ ~returned.spawned
  /\ seclog >= 1

\* A banned identifier occurs in the source, as Python parses it, in a
\* position the analyzer inspects: a banned module in an import or
\* from-import, a banned call as a called name or method, a banned attribute
\* in an attribute access, a banned call or attribute inside a string literal.
BannedOccurs(source) ==
  LET tree == ast_walk(source)
  IN /\ tree.ok
     /\ \E i \in 1..Len(tree.nodes) :
          LET node == tree.nodes[i]
          IN \/ node.type \in {"Import", "ImportFrom"} /\ node.ids \cap always_banned_modules # {}
             \/ node.type \in {"CallName", "CallMethod"} /\ node.ids \cap always_banned_calls # {}
             \/ node.type \in {"CallMethod", "Attribute"} /\ node.ids \cap always_banned_attributes # {}
             \/ node.type = "Constant"
                  /\ node.ids \cap (always_banned_calls \cup always_banned_attributes) # {}

(***************************************************************************)
(* C30: for any code in which a banned identifier occurs in a position the *)
(* analyzer inspects (an import or from-import, a called name or method,   *)
(* an attribute access, a string literal), static_check returns unsafe,    *)
(* wherever the occurrence sits and whatever surrounds it.                  *)
(***************************************************************************)
C30_BannedIdentifierIsUnsafe ==
  (returned.job = "static_check" /\ BannedOccurs(returned.source)) => returned.result = "unsafe"

\* The contract the arguments of a submit call name, explicit before catalog
\* lookup by contract id (for a call that gives one of the two).
NamedContract(f) ==
  IF f.contractArg # NoContract THEN f.contractArg ELSE get_contract_by_id(f.cidArg)

(***************************************************************************)
(* C31: submit resolves the contract with precedence explicit > catalog    *)
(* lookup by contract id > inference from the task text > none, and        *)
(* CONTRACT_VALID runs against the resolved contract exactly when one was  *)
(* resolved.  Stated for the calls that name the contract explicitly or by *)
(* id and whose verification reached the third stage.                      *)
(***************************************************************************)
C31_ContractResolvedByPrecedence ==
  (/\ returned.job = "submit"
   /\ returned.result \in {"ok", "rejected"}
   /\ returned.contractArg # NoContract \/ returned.cidArg # "none"
   /\ Len(returned.report.stages) >= 3)
    => /\ returned.contract = NamedContract(returned)
       /\ returned.report.stages[3].stage = CONTRACT_VALID
       /\ (returned.report.stages[3].result # "skip") <=> (NamedContract(returned) # NoContract)

(***************************************************************************)
(* C32: in prod mode the function of an APPROVAL-tier action runs only     *)
(* after the approver approved it; if it is denied, or no answer arrives   *)
(* within the approval timeout, execute returns (False, None) and the      *)
(* function is never run.                                                  *)
(***************************************************************************)
C32_FunctionRunsOnlyWhenApprovedInTime ==
  \A t \in 0..MaxThreads :
    (/\ th[t].job = "gate"
     /\ th[t].mode = "prod"
     /\ classify(th[t].gateAction) = "APPROVAL")
      => /\ (th[t].pc = "gate_run" \/ th[t].result \in {"ok", "raised"})
              => (th[t].answer = "yes" /\ th[t].waited = 0)
         /\ th[t].answer = "no" => (th[t].result = "rejected" /\ th[t].cpid = NoCp)

\* The number of TRUE entries of a sequence of booleans
RECURSIVE Trues(_)
Trues(seq) == IF seq = <<>> THEN 0 ELSE (IF Head(seq) THEN 1 ELSE 0) + Trues(Tail(seq))

\* The results file of an interrupted run: saved before the return, marked
\* interrupted, holding exactly the results of the tasks completed, in order.
InterruptedRunSaved(f) ==
  (f.pc = "done" /\ f.runner.interrupted)
    => /\ f.runner.file.saved
       /\ f.runner.file.interrupted
       /\ f.runner.file.tasks = f.runner.results
       /\ \A k \in 1..Len(f.runner.results) : f.runner.results[k].task = k

(***************************************************************************)
(* C33: once an operator interrupt is signalled, the evaluation loop       *)
(* starts no further task, and before exiting it saves a results file      *)
(* marked as interrupted that contains exactly the results of the tasks    *)
(* completed up to that point.                                             *)
(***************************************************************************)
C33_NoTaskStartsAfterInterrupt ==
  \A t \in 0..MaxThreads :
    th[t].job = "eval" => (Trues(th[t].runner.late) = 0 /\ InterruptedRunSaved(th[t]))

\* C33 as amended: once an operator interrupt is signalled, the evaluation
\* loop starts no further task after its next test of the interrupt flag (at
\* most the one task whose test preceded the signal is still started), and
\* before exiting it saves a results file marked as interrupted that
\* contains exactly the results of the tasks completed up to that point.
C33_NoTaskStartsAfterNextCheck ==
  \A t \in 0..MaxThreads :
    th[t].job = "eval" => (Trues(th[t].runner.late) <= 1 /\ InterruptedRunSaved(th[t]))

\* An interrupted run that returned with fewer results than tasks
C33_Witness ==
  /\ returned.job = "eval"
  /\ returned.runner.interrupted
  /\ returned.runner.file.saved
  /\ Len(returned.runner.results) = 1
  /\ returned.runner.total = 3

\* The stages in the order of VerificationStage
StageOrder == <<AST_SECURITY, SELF_TEST, CONTRACT_VALID, INTEGRATION>>

(***************************************************************************)
(* C34: in every verification run the stages execute in the order          *)
(* AST_SECURITY, SELF_TEST, CONTRACT_VALID, INTEGRATION, and after the     *)
(* first stage that fails no later stage is run or recorded; in particular *)
(* the code is never executed in a subprocess after AST_SECURITY failed.   *)
(***************************************************************************)
C34_StagesInOrderAndAbortOnFailure ==
  \A t \in 0..MaxThreads :
    LET stages == th[t].report.stages
    IN /\ Len(stages) <= 4
       /\ \A i \in 1..Len(stages) : stages[i].stage = StageOrder[i]
       /\ \A i \in 1..Len(stages) : stages[i].result = "fail" => i = Len(stages)
       /\ (stages # <<>> /\ th[t].report.passed) => Len(stages) = 4
       /\ (stages # <<>> /\ stages[1].result = "fail") => th[t].report.spawns = 0

\* A submission rejected at AST_SECURITY has returned, with that stage alone
\* in its report and no subprocess started
C34_Witness ==
  /\ returned.job = "submit"
  /\ returned.result = "rejected"
  /\ returned.report.stages = <<StageResult(AST_SECURITY, "fail")>>
  /\ returned.report.spawns = 0

\* The frames of refine calls: the delays slept so far, delays[k] being the
\* sleep before attempt k + 1 (attempts counted from 1)
RefineFrames == {t \in 0..MaxThreads : th[t].job \in {"refine", "worker"}}

(***************************************************************************)
(* C35: counting attempts from 1, refine does not sleep before attempt 1   *)
(* and sleeps exactly 2^(attempt-1) seconds before every later attempt.    *)
(***************************************************************************)
C35_BackoffDoublesFromTwo ==
  \A t \in RefineFrames :
    \A k \in 1..Len(th[t].delays) : th[t].delays[k] = 2 ^ ((k + 1) - 1)

\* C35 as amended: counting attempts from 1, refine does not sleep before
\* attempt 1 and sleeps exactly 2^(attempt-2) seconds before every later
\* attempt (1, 2, 4, ... seconds before attempts 2, 3, 4, ...).
C35_BackoffDoublesFromOne ==
  \A t \in RefineFrames :
    /\ Len(th[t].delays) = th[t].sleeps
    /\ th[t].attempt >= 1 => Len(th[t].delays) >= th[t].attempt - 1
    /\ \A k \in 1..Len(th[t].delays) : th[t].delays[k] = 2 ^ ((k + 1) - 2)

\* A refine call has returned after three attempts and two sleeps
C35_Witness ==
  /\ returned.job = "refine"
  /\ returned.attempt = 3
  /\ returned.delays = <<1, 2>>

(***************************************************************************)
(* C36: the checkpoint directory is append-only: creating a checkpoint     *)
(* never overwrites or replaces an existing checkpoint file (also for      *)
(* checkpoints of the same action opened within the same second or by      *)
(* concurrent workers), no checkpoint is deleted, and a checkpoint that    *)
(* reached completed or failed never changes status again.  An overwrite   *)
(* shows as a closed file whose status goes back to pending.               *)
(***************************************************************************)
C36_CheckpointDirectoryAppendOnly ==
  [][\A id \in CpIds :
        /\ cps[id] # "absent" => cps'[id] # "absent"
        /\ cps[id] \in {"completed", "failed"} => cps'[id] = cps[id]]_vars

(***************************************************************************)
(* C37: if the process stops between opening a checkpoint and closing it,  *)
(* then after the next startup no checkpoint remains pending: recovery     *)
(* marks every checkpoint still pending as failed.  Stated for the moment  *)
(* the startup is over and no new call has begun.                          *)
(***************************************************************************)
C37_NoPendingAfterStartup ==
  (returned.job = "startup" /\ \A t \in Threads : ~Busy(t))
    => \A id \in CpIds : cps[id] # "pending"

(***************************************************************************)
(* C38: check_and_resolve never raises: for every set of two or more       *)
(* non-deprecated candidates, including candidates whose score tuples are  *)
(* identical, it picks exactly one survivor and returns kept or            *)
(* superseded.                                                             *)
(***************************************************************************)
C38_ResolveNeverRaises ==
  [][ResolveStep =>
       LET c == returned'.refContract
       IN /\ returned'.result # "raised"
          /\ Cardinality(ActiveOf(tools, c)) >= 2
               => /\ returned'.dedup \in {"kept", "superseded"}
                  /\ Cardinality(ActiveOf(tools', c)) = 1]_vars

C40_StageNeverDecreases ==
  [][\A id \in 1..Len(tools) :
        tools'[id].verification_stage >= tools[id].verification_stage]_vars

====
